---- MODULE Spec2Model ----
(***************************************************************************)
(* GhostStreamingParser (src/services/ghost/GhostStreamingParser.ts):      *)
(* the streaming parser of <change> blocks, its completion heuristic, the  *)
(* matcher cascade, the edit applier and the hunk translator.              *)
(*                                                                         *)
(* Texts are TLA+ strings; offsets are 0-based as in the source.  The      *)
(* transport is modelled by a response text (stream) that is handed to     *)
(* processChunk in consecutive slices of up to MaxChunk characters, or     *)
(* the whole rest at once.                                                 *)
(***************************************************************************)
EXTENDS Integers, Sequences, FiniteSets, TLC

VARIABLES
    context,            \* this.context: [set, hasDocument]
    buffer,             \* this.buffer
    completedChanges,   \* this.completedChanges
    lastProcessedIndex, \* this.lastProcessedIndex
    documentText,       \* what context.document.getText() returns now
    stream,             \* the response the transport delivers in this session
    delivered,          \* number of characters of stream handed over so far
    nonEmptyChunks,     \* non-empty chunks handed over so far: 0, 1, 2 (or more)
    abandoned,          \* the last initialize()/reset() found a parse in progress
    result,             \* outcome of the last call on the engine
    fresh,              \* reference engine: constructed anew at the last
                        \* initialize()/reset() and fed the same chunks since
    keys,               \* GeminiKeyManager: this.keys
    currentIndex,       \* GeminiKeyManager: this.currentIndex
    failedKeys,         \* GeminiKeyManager: this.failedKeys
    returned,           \* the last call on the key manager and what it returned
    rotation,           \* the run of getNextKey calls in progress: the index
                        \* it started from and the indices it made current
    message             \* GeminiHandler.createMessage: the generator's run

\* the streaming parser and the Gemini provider are separate objects
parserVars == <<context, buffer, completedChanges, lastProcessedIndex,
                documentText, stream, delivered, nonEmptyChunks, abandoned,
                result, fresh>>

geminiVars == <<keys, currentIndex, failedKeys, returned, rotation, message>>

vars == <<context, buffer, completedChanges, lastProcessedIndex, documentText,
          stream, delivered, nonEmptyChunks, abandoned, result, fresh,
          keys, currentIndex, failedKeys, returned, rotation, message>>

\* what a call returns when it returns null or nothing
Null == "null"

\* no call was made on the key manager yet
NoCall ==
    [call |-> "none", value |-> Null,
     before |-> [keys |-> <<>>, currentIndex |-> 0, failedKeys |-> {}]]

\* no run of getNextKey calls is in progress
NoRotation == [start |-> -1, visited |-> <<>>]

\* createMessage was not called yet
NoMessage ==
    [pc |-> "idle",                      \* "idle", "streaming" or "done"
     hasContent |-> FALSE,               \* let hasContent
     lastUsageMetadata |-> <<>>,         \* let lastUsageMetadata, <<>> if unset
     pendingGroundingMetadata |-> FALSE, \* let pendingGroundingMetadata is set
     received |-> <<>>,                  \* the chunks the API stream produced
     yielded |-> <<>>,                   \* the chunks the generator yielded
     failure |-> FALSE,                  \* the API call or the stream failed
     threw |-> FALSE]                    \* the generator threw to its consumer

\* new GeminiKeyManager(): a provider without keys, which is not used
NoGemini ==
    /\ keys = <<>>
    /\ currentIndex = 0
    /\ failedKeys = {}
    /\ returned = NoCall
    /\ rotation = NoRotation
    /\ message = NoMessage

----------------------------------------------------------------------------
(* String primitives (JavaScript String methods, 0-based offsets)          *)

\* s[i]; an offset outside s gives no character
CharAt(s, i) == IF i >= 0 /\ i < Len(s) THEN SubSeq(s, i + 1, i + 1) ELSE ""

\* an offset clamped to 0..s.length, as substring() clamps its arguments
Clamp(s, i) == IF i < 0 THEN 0 ELSE IF i > Len(s) THEN Len(s) ELSE i

\* s.substring(from, to), from <= to
Substring(s, from, to) == SubSeq(s, Clamp(s, from) + 1, Clamp(s, to))

\* s.substring(from)
SubstringFrom(s, from) == SubSeq(s, Clamp(s, from) + 1, Len(s))

\* s.startsWith(lit, p)
StartsWithAt(s, lit, p) ==
    /\ p >= 0
    /\ p + Len(lit) <= Len(s)
    /\ SubSeq(s, p + 1, p + Len(lit)) = lit

\* s.endsWith(lit)
EndsWith(s, lit) == StartsWithAt(s, lit, Len(s) - Len(lit))

MinOf(S) == CHOOSE x \in S : \A y \in S : x <= y

MaxOf(S) == CHOOSE x \in S : \A y \in S : x >= y

\* s.indexOf(lit, from)
IndexOfFrom(s, lit, from) ==
    LET P == {p \in from..(Len(s) - Len(lit)) : StartsWithAt(s, lit, p)}
    IN  IF P = {} THEN -1 ELSE MinOf(P)

\* s.indexOf(lit)
IndexOf(s, lit) == IndexOfFrom(s, lit, 0)

\* the characters the regular expression class \s and String.trim() treat as
\* white space, among the characters of the modelled texts
WhiteSpace == {" ", "\t", "\n", "\r"}

IsWhiteSpace(c) == c \in WhiteSpace

\* \s* (greedy) from offset p: the offset of the first non-white-space
\* character at or after p.  Every \s* of the patterns is followed by a
\* literal "<", so giving back white space can never help the match.
RECURSIVE SkipWhiteSpace(_, _)
SkipWhiteSpace(s, p) ==
    IF p < Len(s) /\ IsWhiteSpace(CharAt(s, p)) THEN SkipWhiteSpace(s, p + 1) ELSE p

\* the offset after the last non-white-space character before offset p
RECURSIVE SkipWhiteSpaceBack(_, _)
SkipWhiteSpaceBack(s, p) ==
    IF p > 0 /\ IsWhiteSpace(CharAt(s, p - 1)) THEN SkipWhiteSpaceBack(s, p - 1) ELSE p

\* s.trimEnd()
TrimEnd(s) == Substring(s, 0, SkipWhiteSpaceBack(s, Len(s)))

\* s.trim()
Trim(s) == SubstringFrom(TrimEnd(s), SkipWhiteSpace(TrimEnd(s), 0))

\* s.replaceAll(pat, rep) for a non-empty pat: one left-to-right pass over
\* the non-overlapping occurrences of pat in s
RECURSIVE ReplaceAll(_, _, _)
ReplaceAll(s, pat, rep) ==
    LET i == IndexOf(s, pat)
    IN  IF i = -1
        THEN s
        ELSE Substring(s, 0, i) \o rep
                \o ReplaceAll(SubstringFrom(s, i + Len(pat)), pat, rep)

\* Special marker for cursor position
CURSOR_MARKER == "<<<AUTOCOMPLETE_HERE>>>"

----------------------------------------------------------------------------
(* extractCompletedChanges: the changeRegex of lines 90-91                 *)
(*   <change>\s*<search>\s*<![CDATA[ (.*?) ]]>\s*</search>\s*<replace>\s*  *)
(*   <![CDATA[ (.*?) ]]>\s*</replace>\s*</change>                          *)
(* matched the way a backtracking engine matches it.                       *)

NoMatch == [found |-> FALSE, index |-> 0, end |-> 0, search |-> "", replace |-> ""]

\* a literal of the pattern at offset p: the offset after it, or -1
Literal(s, lit, p) ==
    IF p >= 0 /\ StartsWithAt(s, lit, p) THEN p + Len(lit) ELSE -1

\* \s* followed by a literal, from offset p: the offset after them, or -1
WsLiteral(s, lit, p) ==
    IF p < 0 THEN -1 ELSE Literal(s, lit, SkipWhiteSpace(s, p))

\* <change>\s*<search>\s*<![CDATA[ at offset p: where group 1 starts, or -1
OpenPart(s, p) ==
    WsLiteral(s, "<![CDATA[", WsLiteral(s, "<search>", Literal(s, "<change>", p)))

\* ]]>\s*</search>\s*<replace>\s*<![CDATA[ at offset p: where group 2 starts, or -1
MiddlePart(s, p) ==
    WsLiteral(s, "<![CDATA[",
        WsLiteral(s, "<replace>",
            WsLiteral(s, "</search>", Literal(s, "]]>", p))))

\* the end of the pattern without the ">" of its last tag
ClosePart_truncated(s, p) ==
    WsLiteral(s, "</change", WsLiteral(s, "</replace>", Literal(s, "]]>", p)))

\* ]]>\s*</replace>\s*</change> at offset p: where the match ends, or -1
ClosePart(s, p) ==
    WsLiteral(s, "</change>", WsLiteral(s, "</replace>", Literal(s, "]]>", p)))

\* The lazy group 2, which starts at g2: it grows one character at a time
\* until the rest of the pattern matches.  r is the least length not yet tried.
\* The result is the offset of the "]]>" that closes group 2, or -1.
RECURSIVE LazyReplace(_, _)
LazyReplace(s, r) ==
    LET c == IndexOfFrom(s, "]]>", r)
    IN  IF c = -1 THEN -1
        ELSE IF ClosePart(s, c) # -1 THEN c
        ELSE LazyReplace(s, c + 1)

\* The lazy group 1, which starts at g1; q is the least end not yet tried.
\* For each end of group 1 after which the middle of the pattern matches, group 2
\* is tried; when no end of group 2 works, group 1 grows further.
RECURSIVE LazySearch(_, _, _, _)
LazySearch(s, p, g1, q) ==
    LET c  == IndexOfFrom(s, "]]>", q)
        g2 == MiddlePart(s, c)
        e  == LazyReplace(s, g2)
    IN  IF c = -1 THEN NoMatch
        ELSE IF g2 # -1 /\ e # -1
        THEN [found |-> TRUE, index |-> p, end |-> ClosePart(s, e),
              search |-> Substring(s, g1, c), replace |-> Substring(s, g2, e)]
        ELSE LazySearch(s, p, g1, c + 1)

\* the pattern anchored at offset p
MatchAt(s, p) ==
    LET g1 == OpenPart(s, p)
    IN  IF g1 = -1 THEN NoMatch ELSE LazySearch(s, p, g1, g1)

\* changeRegex.exec(s) with lastIndex = from: the leftmost match at or after from
RECURSIVE RegexExec(_, _)
RegexExec(s, from) ==
    LET p == IndexOfFrom(s, "<change>", from)
        m == MatchAt(s, p)
    IN  IF p = -1 THEN NoMatch
        ELSE IF m.found THEN m
        ELSE RegexExec(s, p + 1)

\* the while loop of lines 96-106: every match of the global regex in
\* searchText, from lastIndex on, left to right
RECURSIVE ExecLoop(_, _)
ExecLoop(searchText, lastIndex) ==
    LET m == RegexExec(searchText, lastIndex)
    IN  IF m.found THEN <<m>> \o ExecLoop(searchText, m.end) ELSE <<>>

\* lines 97-103: one ParsedChange per match, the cursor marker removed
ParsedChangeOf(m) ==
    [search  |-> ReplaceAll(m.search, CURSOR_MARKER, ""),
     replace |-> ReplaceAll(m.replace, CURSOR_MARKER, "")]

\* line 110 with an assignment in the place of the addition
AdvanceIndex_assign(index, lastMatchEnd) ==
    IF lastMatchEnd > 0 THEN lastMatchEnd ELSE index

\* lines 108-111 left out: the index stays where it is
AdvanceIndex_stay(index, lastMatchEnd) == index

\* lines 108-111: the new value of lastProcessedIndex
AdvanceIndex(index, lastMatchEnd) ==
    IF lastMatchEnd > 0 THEN index + lastMatchEnd ELSE index

\* lines 97-111 for the matches the loop found: the new changes and the new index
MatchedChanges(index, matches) ==
    [newChanges |-> [i \in 1..Len(matches) |-> ParsedChangeOf(matches[i])],
     lastProcessedIndex |->
         AdvanceIndex(index, IF matches = <<>> THEN 0 ELSE matches[Len(matches)].end)]

\* extractCompletedChanges moving the index to the end of the buffer,
\* whether or not a block matched
ExtractCompletedChanges_consumeAll(e) ==
    [MatchedChanges(e.lastProcessedIndex,
                    ExecLoop(SubstringFrom(e.buffer, e.lastProcessedIndex), 0))
        EXCEPT !.lastProcessedIndex = Len(e.buffer)]

\* extractCompletedChanges() on an engine e: the new changes and the new index
ExtractCompletedChanges(e) ==
    MatchedChanges(e.lastProcessedIndex,
                   ExecLoop(SubstringFrom(e.buffer, e.lastProcessedIndex), 0))

----------------------------------------------------------------------------
(* isResponseComplete: the four case-insensitive patterns of lines 125-128 *)

\* the letters the /i flag folds, among the characters of the modelled texts
LowerChar(c) ==
    CASE c = "A" -> "a" [] c = "C" -> "c" [] c = "D" -> "d" [] c = "E" -> "e"
      [] c = "G" -> "g" [] c = "H" -> "h" [] c = "L" -> "l" [] c = "N" -> "n"
      [] c = "P" -> "p" [] c = "R" -> "r" [] c = "S" -> "s" [] c = "T" -> "t"
      [] OTHER -> c

\* the first n characters of lit (in lower case) stand at offset p of s, up to
\* the case of the letters; i characters are compared already
RECURSIVE SameNoCase(_, _, _, _)
SameNoCase(s, lit, p, i) ==
    \/ i >= Len(lit)
    \/ /\ LowerChar(CharAt(s, p + i)) = CharAt(lit, i)
       /\ SameNoCase(s, lit, p, i + 1)

\* a literal of a pattern under the /i flag at offset p of s (lit is in lower
\* case): the offset after it, or -1
LiteralNoCase(s, lit, p) ==
    IF p >= 0 /\ p + Len(lit) <= Len(s) /\ SameNoCase(s, lit, p, 0)
    THEN p + Len(lit) ELSE -1

\* the offsets of s that hold the character c
OffsetsOf(s, c) == {p \in 0..(Len(s) - 1) : CharAt(s, p) = c}

\* <name(?:\s[^>]*)?> at offset p of s: the offset after the tag, or -1.
\* The optional group is tried first; [^>]* stops at the first ">".
OpenTagEnd(s, open, p) ==
    LET a == LiteralNoCase(s, open, p)
    IN  IF a = -1 \/ a >= Len(s) THEN -1
        ELSE IF IsWhiteSpace(CharAt(s, a))
        THEN LET g == IndexOfFrom(s, ">", a + 1)
             IN  IF g = -1 THEN -1 ELSE g + 1
        ELSE IF CharAt(s, a) = ">" THEN a + 1
        ELSE -1

\* /<name(?:\s[^>]*)?>(?:(?!<\/name>)[\s\S])*$/i.test(s): a tag opens at some
\* offset and no close starts at or after the offset where the tag ends.
\* starts holds the offsets of "<" in s, where alone either can start.
IncompleteTag(s, starts, open, close) ==
    LET closes == {r \in starts : LiteralNoCase(s, close, r) # -1}
    IN  \E p \in starts :
            LET q == OpenTagEnd(s, open, p)
            IN  q # -1 /\ \A r \in closes : r < q

\* the test of line 128 left out
IncompleteCData_never(s, starts) == FALSE

\* /<!\[CDATA\[(?:(?!\]\]>)[\s\S])*$/i.test(s)
IncompleteCData(s, starts) ==
    \E p \in starts :
        LET q == LiteralNoCase(s, "<![cdata[", p)
        IN  q # -1 /\ IndexOfFrom(s, "]]>", q) = -1

\* isResponseComplete without the case of lines 136-138
IsResponseComplete_noEmptyCase(e) ==
    LET trimmedBuffer == Trim(e.buffer)
        starts        == OffsetsOf(trimmedBuffer, "<")
    IN  /\ ~IncompleteTag(trimmedBuffer, starts, "<change", "</change>")
        /\ ~IncompleteTag(trimmedBuffer, starts, "<search", "</search>")
        /\ ~IncompleteTag(trimmedBuffer, starts, "<replace", "</replace>")
        /\ ~IncompleteCData(trimmedBuffer, starts)
        /\ Len(e.completedChanges) > 0

\* isResponseComplete() on an engine e
IsResponseComplete(e) ==
    LET trimmedBuffer == Trim(e.buffer)
        starts        == OffsetsOf(trimmedBuffer, "<")
        incompleteChangeMatch  == IncompleteTag(trimmedBuffer, starts, "<change", "</change>")
        incompleteSearchMatch  == IncompleteTag(trimmedBuffer, starts, "<search", "</search>")
        incompleteReplaceMatch == IncompleteTag(trimmedBuffer, starts, "<replace", "</replace>")
        incompleteCDataMatch   == IncompleteCData(trimmedBuffer, starts)
    IN  IF \/ incompleteChangeMatch \/ incompleteSearchMatch
           \/ incompleteReplaceMatch \/ incompleteCDataMatch
        THEN FALSE
        ELSE IF Len(trimmedBuffer) = 0
        THEN TRUE
        ELSE Len(e.completedChanges) > 0

----------------------------------------------------------------------------
(* findBestMatch and mapNormalizedToOriginalIndex (lines 294-389)          *)

\* the offset after the last character before offset p that is no blank or tab
RECURSIVE SkipBlanksBack(_, _)
SkipBlanksBack(s, p) ==
    IF p > 0 /\ CharAt(s, p - 1) \in {" ", "\t"} THEN SkipBlanksBack(s, p - 1) ELSE p

\* text.replace(/[ \t]+$/gm, ""): every run of blanks and tabs that ends
\* at a line break or at the end of the text is removed
RECURSIVE StripLineEnds(_)
StripLineEnds(text) ==
    LET n    == IndexOf(text, "\n")
        line == IF n = -1 THEN text ELSE Substring(text, 0, n)
        cut  == Substring(line, 0, SkipBlanksBack(line, Len(line)))
    IN  IF n = -1 THEN cut
        ELSE cut \o "\n" \o StripLineEnds(SubstringFrom(text, n + 1))

\* normalizeWhitespace (lines 321-327)
NormalizeWhitespace(text) ==
    StripLineEnds(
        ReplaceAll(ReplaceAll(ReplaceAll(text, "\r\n", "\n"), "\r", "\n"),
                   "\t", "    "))

\* the inner while loop of lines 374-376
SkipOriginalWhiteSpace(originalContent, originalIndex) ==
    SkipWhiteSpace(originalContent, originalIndex)

\* the while loop of mapNormalizedToOriginalIndex (lines 362-386)
RECURSIVE MapLoop(_, _, _, _, _)
MapLoop(originalContent, normalizedContent, normalizedIndex, originalIndex, normalizedPos) ==
    IF ~(normalizedPos < normalizedIndex /\ originalIndex < Len(originalContent))
    THEN originalIndex
    ELSE LET originalChar   == CharAt(originalContent, originalIndex)
             normalizedChar == CharAt(normalizedContent, normalizedPos)
         IN  IF originalChar = normalizedChar
             THEN MapLoop(originalContent, normalizedContent, normalizedIndex,
                          originalIndex + 1, normalizedPos + 1)
             ELSE IF IsWhiteSpace(originalChar)
             THEN MapLoop(originalContent, normalizedContent, normalizedIndex,
                          SkipOriginalWhiteSpace(originalContent, originalIndex + 1),
                          IF normalizedPos < Len(normalizedContent)
                             /\ IsWhiteSpace(normalizedChar)
                          THEN normalizedPos + 1 ELSE normalizedPos)
             ELSE MapLoop(originalContent, normalizedContent, normalizedIndex,
                          originalIndex + 1, normalizedPos + 1)

MapNormalizedToOriginalIndex(originalContent, normalizedContent, normalizedIndex) ==
    MapLoop(originalContent, normalizedContent, normalizedIndex, 0, 0)

\* the cascade without the strategy of lines 306-318
TrailingNewlineMatch_never(content, searchPattern) == -1

\* lines 306-318: the pattern without its trailing line break, accepted when a
\* line break or the end of the text follows its first occurrence; else -1
TrailingNewlineMatch(content, searchPattern) ==
    IF ~EndsWith(searchPattern, "\n") THEN -1
    ELSE LET searchWithoutTrailingNewline ==
                 Substring(searchPattern, 0, Len(searchPattern) - 1)
             index == IndexOf(content, searchWithoutTrailingNewline)
             afterMatchIndex == index + Len(searchWithoutTrailingNewline)
         IN  IF index # -1
                /\ (afterMatchIndex >= Len(content)
                      \/ CharAt(content, afterMatchIndex) = "\n")
             THEN index ELSE -1

\* lines 320-337: the match on the normalized forms, mapped back; else -1
NormalizedMatch(content, searchPattern) ==
    LET normalizedContent == NormalizeWhitespace(content)
        normalizedSearch  == NormalizeWhitespace(searchPattern)
        index == IndexOf(normalizedContent, normalizedSearch)
    IN  IF index # -1
        THEN MapNormalizedToOriginalIndex(content, normalizedContent, index)
        ELSE -1

\* lines 339-346: the trimmed pattern, when trimming changes it; else -1
TrimmedMatch(content, searchPattern) ==
    LET trimmedSearch == Trim(searchPattern)
    IN  IF trimmedSearch # searchPattern THEN IndexOf(content, trimmedSearch) ELSE -1

\* findBestMatch(content, searchPattern) without its exact match
FindBestMatch_noExact(content, searchPattern) ==
    IF content = "" \/ searchPattern = "" THEN -1
    ELSE IF TrailingNewlineMatch(content, searchPattern) # -1
    THEN TrailingNewlineMatch(content, searchPattern)
    ELSE IF IndexOf(NormalizeWhitespace(content), NormalizeWhitespace(searchPattern)) # -1
    THEN NormalizedMatch(content, searchPattern)
    ELSE TrimmedMatch(content, searchPattern)

\* findBestMatch(content, searchPattern) without the validation of its inputs
FindBestMatch_noValidation(content, searchPattern) ==
    IF IndexOf(content, searchPattern) # -1
    THEN IndexOf(content, searchPattern)
    ELSE IF TrailingNewlineMatch(content, searchPattern) # -1
    THEN TrailingNewlineMatch(content, searchPattern)
    ELSE IF IndexOf(NormalizeWhitespace(content), NormalizeWhitespace(searchPattern)) # -1
    THEN NormalizedMatch(content, searchPattern)
    ELSE TrimmedMatch(content, searchPattern)

\* findBestMatch(content, searchPattern)
FindBestMatch(content, searchPattern) ==
    IF content = "" \/ searchPattern = "" THEN -1
    ELSE IF IndexOf(content, searchPattern) # -1
    THEN IndexOf(content, searchPattern)
    ELSE IF TrailingNewlineMatch(content, searchPattern) # -1
    THEN TrailingNewlineMatch(content, searchPattern)
    ELSE IF IndexOf(NormalizeWhitespace(content), NormalizeWhitespace(searchPattern)) # -1
    THEN NormalizedMatch(content, searchPattern)
    ELSE TrimmedMatch(content, searchPattern)

----------------------------------------------------------------------------
(* generateSuggestions: the edit applier (lines 156-230)                   *)

\* lines 159-162
FilterChange(change) ==
    [search  |-> ReplaceAll(change.search, CURSOR_MARKER, ""),
     replace |-> ReplaceAll(change.replace, CURSOR_MARKER, "")]

\* the test of lines 177-182 left out: no change is ever skipped
HasOverlap_never(appliedChanges, searchIndex, endIndex) == FALSE

\* the test of lines 177-182 on the start of the new range alone
HasOverlap_startInside(appliedChanges, searchIndex, endIndex) ==
    \E i \in 1..Len(appliedChanges) :
        /\ searchIndex < appliedChanges[i].endIndex
        /\ searchIndex >= appliedChanges[i].startIndex

\* lines 177-182
HasOverlap(appliedChanges, searchIndex, endIndex) ==
    \E i \in 1..Len(appliedChanges) :
        /\ searchIndex < appliedChanges[i].endIndex
        /\ endIndex > appliedChanges[i].startIndex

\* lines 197-201: the line breaks that follow offset endIndex
RECURSIVE ExtraNewlines(_, _)
ExtraNewlines(content, nextCharIndex) ==
    IF nextCharIndex < Len(content) /\ CharAt(content, nextCharIndex) = "\n"
    THEN "\n" \o ExtraNewlines(content, nextCharIndex + 1)
    ELSE ""

\* lines 189-210
AdjustReplace(content, change, endIndex) ==
    LET extraNewlines == ExtraNewlines(content, endIndex)
    IN  IF /\ EndsWith(change.search, "\n")
           /\ Len(extraNewlines) > 0
           /\ ~EndsWith(change.replace, "\n" \o extraNewlines)
        THEN TrimEnd(change.replace) \o "\n" \o extraNewlines
        ELSE change.replace

\* line 222 left out: the splices are made in the order of acceptance
SortDescending_unsorted(applied) == applied

\* line 222: sort by startIndex, descending
RECURSIVE SortDescending(_)
SortDescending(applied) ==
    IF applied = <<>> THEN <<>>
    ELSE LET top == CHOOSE i \in 1..Len(applied) :
                        \A j \in 1..Len(applied) :
                            \/ applied[j].startIndex < applied[i].startIndex
                            \/ (applied[j].startIndex = applied[i].startIndex /\ i <= j)
         IN  <<applied[top]>>
                \o SortDescending([k \in 1..(Len(applied) - 1) |->
                                      IF k < top THEN applied[k] ELSE applied[k + 1]])

\* lines 225-230: the splices, in the order of the sorted list
RECURSIVE Splice(_, _, _)
Splice(modifiedContent, sorted, k) ==
    IF k > Len(sorted) THEN modifiedContent
    ELSE Splice(Substring(modifiedContent, 0, sorted[k].startIndex)
                    \o sorted[k].replaceContent
                    \o SubstringFrom(modifiedContent, sorted[k].endIndex),
                sorted, k + 1)

\* lines 176-218 without the test of line 174
ApplyAt_noFoundTest(content, appliedChanges, change, searchIndex) ==
    IF HasOverlap(appliedChanges, searchIndex, searchIndex + Len(change.search))
    THEN appliedChanges
    ELSE Append(appliedChanges,
                [searchContent  |-> change.search,
                 replaceContent |-> AdjustReplace(content, change,
                                                  searchIndex + Len(change.search)),
                 startIndex     |-> searchIndex,
                 endIndex       |-> searchIndex + Len(change.search)])

\* lines 176-218 with a later change displacing the accepted ones it overlaps
ApplyAt_lastWins(content, appliedChanges, change, searchIndex) ==
    IF searchIndex = -1 THEN appliedChanges
    ELSE (IF HasOverlap(appliedChanges, searchIndex, searchIndex + Len(change.search))
          THEN <<>> ELSE appliedChanges)
         \o <<[searchContent  |-> change.search,
               replaceContent |-> AdjustReplace(content, change,
                                                searchIndex + Len(change.search)),
               startIndex     |-> searchIndex,
               endIndex       |-> searchIndex + Len(change.search)]>>

\* lines 176-218: the change whose search text was found at searchIndex
ApplyAt(content, appliedChanges, change, searchIndex) ==
    LET endIndex == searchIndex + Len(change.search)
    IN  IF searchIndex = -1 THEN appliedChanges
        ELSE IF HasOverlap(appliedChanges, searchIndex, endIndex) THEN appliedChanges
        ELSE Append(appliedChanges,
                    [searchContent  |-> change.search,
                     replaceContent |-> AdjustReplace(content, change, endIndex),
                     startIndex     |-> searchIndex,
                     endIndex       |-> endIndex])

\* an iteration that looks for the search text in the text as the matches
\* accepted so far would leave it
ApplyStep_onModified(content, appliedChanges, change) ==
    ApplyAt(content, appliedChanges, change,
            FindBestMatch(Splice(content, SortDescending(appliedChanges), 1),
                          change.search))

\* one iteration of the loop of lines 172-219
ApplyStep(content, appliedChanges, change) ==
    ApplyAt(content, appliedChanges, change, FindBestMatch(content, change.search))

\* the loop of lines 172-219 over the first n filtered changes
RECURSIVE AppliedChanges(_, _, _)
AppliedChanges(content, changes, n) ==
    IF n = 0 THEN <<>>
    ELSE ApplyStep(content, AppliedChanges(content, changes, n - 1),
                   FilterChange(changes[n]))

\* lines 156-230: the hypothetical edited text
ModifiedContent(currentContent, changes) ==
    Splice(currentContent,
           SortDescending(AppliedChanges(currentContent, changes, Len(changes))), 1)

----------------------------------------------------------------------------
(* structuredPatch of the "diff" package, as called on line 234: a line    *)
(* diff of the two texts, cut into hunks with DiffContext lines of context *)

\* the context option of structuredPatch, which line 234 leaves at its default
DiffContext == 4

\* the lines of a text, each with its line break; a last line without one
\* is a line too, and the empty text has no line
RECURSIVE Tokenize(_)
Tokenize(text) ==
    LET n == IndexOf(text, "\n")
    IN  IF text = "" THEN <<>>
        ELSE IF n = -1 THEN <<text>>
        ELSE <<Substring(text, 0, n + 1)>> \o Tokenize(SubstringFrom(text, n + 1))

\* a line without its line break
Chomp(line) == IF EndsWith(line, "\n") THEN Substring(line, 0, Len(line) - 1) ELSE line

Rest(seq) == SubSeq(seq, 2, Len(seq))

\* the length of a longest common subsequence of two line lists
RECURSIVE LcsLength(_, _)
LcsLength(a, b) ==
    IF a = <<>> \/ b = <<>> THEN 0
    ELSE IF a[1] = b[1] THEN 1 + LcsLength(Rest(a), Rest(b))
    ELSE LET x == LcsLength(Rest(a), b)
             y == LcsLength(a, Rest(b))
         IN  IF x >= y THEN x ELSE y

\* a shortest edit script from a to b, one entry per line; where a removal and
\* an insertion are equally good the removal comes first
RECURSIVE DiffLines(_, _)
DiffLines(a, b) ==
    IF a = <<>> THEN [i \in 1..Len(b) |-> [kind |-> "+", line |-> Chomp(b[i])]]
    ELSE IF b = <<>> THEN [i \in 1..Len(a) |-> [kind |-> "-", line |-> Chomp(a[i])]]
    ELSE IF a[1] = b[1]
    THEN <<[kind |-> " ", line |-> Chomp(a[1])]>> \o DiffLines(Rest(a), Rest(b))
    ELSE IF LcsLength(Rest(a), b) >= LcsLength(a, Rest(b))
    THEN <<[kind |-> "-", line |-> Chomp(a[1])]>> \o DiffLines(Rest(a), b)
    ELSE <<[kind |-> "+", line |-> Chomp(b[1])]>> \o DiffLines(a, Rest(b))

\* the edit script as runs of one kind (the change objects of the package),
\* closed by an empty unchanged run
RECURSIVE Components(_)
Components(entries) ==
    IF entries = <<>> THEN <<[kind |-> " ", lines |-> <<>>]>>
    ELSE LET k    == entries[1].kind
             stop == {i \in 1..Len(entries) : entries[i].kind # k}
             n    == IF stop = {} THEN Len(entries) ELSE MinOf(stop) - 1
         IN  <<[kind |-> k, lines |-> [i \in 1..n |-> entries[i].line]]>>
                \o Components(SubSeq(entries, n + 1, Len(entries)))

Prefixed(kind, lines) == [i \in 1..Len(lines) |-> kind \o lines[i]]

LastLines(lines, n) ==
    IF Len(lines) <= n THEN lines ELSE SubSeq(lines, Len(lines) - n + 1, Len(lines))

FirstLines(lines, n) == IF Len(lines) <= n THEN lines ELSE SubSeq(lines, 1, n)

NoNewlineMarker == "\\ No newline at end of file"

\* the lines of a hunk that reaches the end of the texts, with the marker of
\* a missing final line break
WithEofMarker(curRange, oldLines, trailing, oldStr, newStr) ==
    LET oldEOFNewline  == EndsWith(oldStr, "\n")
        newEOFNewline  == EndsWith(newStr, "\n")
        noNlBeforeAdds == trailing = 0 /\ Len(curRange) > oldLines
        first == IF ~oldEOFNewline /\ noNlBeforeAdds /\ Len(oldStr) > 0
                 THEN SubSeq(curRange, 1, oldLines) \o <<NoNewlineMarker>>
                        \o SubSeq(curRange, oldLines + 1, Len(curRange))
                 ELSE curRange
    IN  IF (~oldEOFNewline /\ ~noNlBeforeAdds) \/ ~newEOFNewline
        THEN Append(first, NoNewlineMarker)
        ELSE first

\* the loop of structuredPatch over the runs, from run i on.  st holds the
\* hunks closed so far, the open hunk (oldRangeStart = 0: none) and the
\* 1-based line counters of the two texts.
RECURSIVE PatchLoop(_, _, _, _, _)
PatchLoop(comps, i, st, oldStr, newStr) ==
    IF i > Len(comps) THEN st.hunks
    ELSE LET cur   == comps[i]
             lines == cur.lines
             n     == Len(lines)
         IN  IF cur.kind # " "
             THEN LET opening == st.oldRangeStart = 0
                      lead    == IF opening /\ i > 1
                                 THEN Prefixed(" ", LastLines(comps[i - 1].lines, DiffContext))
                                 ELSE <<>>
                      range   == IF opening THEN lead ELSE st.curRange
                  IN  PatchLoop(comps, i + 1,
                        [st EXCEPT
                           !.oldRangeStart = IF opening THEN st.oldLine - Len(lead) ELSE @,
                           !.newRangeStart = IF opening THEN st.newLine - Len(lead) ELSE @,
                           !.curRange = range \o Prefixed(cur.kind, lines),
                           !.oldLine  = IF cur.kind = "-" THEN @ + n ELSE @,
                           !.newLine  = IF cur.kind = "+" THEN @ + n ELSE @],
                        oldStr, newStr)
             ELSE IF st.oldRangeStart = 0
             THEN PatchLoop(comps, i + 1,
                            [st EXCEPT !.oldLine = @ + n, !.newLine = @ + n],
                            oldStr, newStr)
             ELSE IF n <= DiffContext * 2 /\ i < Len(comps) - 1
             THEN PatchLoop(comps, i + 1,
                            [st EXCEPT !.curRange = @ \o Prefixed(" ", lines),
                                       !.oldLine = @ + n, !.newLine = @ + n],
                            oldStr, newStr)
             ELSE LET contextSize == IF n <= DiffContext THEN n ELSE DiffContext
                      closed   == st.curRange \o Prefixed(" ", FirstLines(lines, DiffContext))
                      oldLines == st.oldLine - st.oldRangeStart + contextSize
                      hunk == [oldStart |-> st.oldRangeStart,
                               newStart |-> st.newRangeStart,
                               lines |-> IF i >= Len(comps) - 1 /\ n <= DiffContext
                                         THEN WithEofMarker(closed, oldLines, n, oldStr, newStr)
                                         ELSE closed]
                  IN  PatchLoop(comps, i + 1,
                        [st EXCEPT !.hunks = Append(@, hunk),
                                   !.oldRangeStart = 0, !.newRangeStart = 0,
                                   !.curRange = <<>>,
                                   !.oldLine = @ + n, !.newLine = @ + n],
                        oldStr, newStr)

\* structuredPatch(..., oldStr, newStr, "", "").hunks
StructuredPatch(oldStr, newStr) ==
    PatchLoop(Components(DiffLines(Tokenize(oldStr), Tokenize(newStr))), 1,
              [hunks |-> <<>>, oldRangeStart |-> 0, newRangeStart |-> 0,
               curRange |-> <<>>, oldLine |-> 1, newLine |-> 1],
              oldStr, newStr)

----------------------------------------------------------------------------
(* generateSuggestions: the hunk translation (lines 240-284)               *)

\* the loop of lines 245-283 with an operation for the lines of the default
\* branch as well
RECURSIVE HunkOperations_contextToo(_, _, _, _)
HunkOperations_contextToo(lines, k, currentOldLineNumber, currentNewLineNumber) ==
    IF k > Len(lines) THEN <<>>
    ELSE <<[type |-> CharAt(lines[k], 0),
            line |-> IF CharAt(lines[k], 0) = "+" THEN currentNewLineNumber - 1
                     ELSE currentOldLineNumber - 1,
            oldLine |-> currentOldLineNumber - 1,
            newLine |-> currentNewLineNumber - 1,
            content |-> SubstringFrom(lines[k], 1)]>>
         \o HunkOperations_contextToo(
                lines, k + 1,
                IF CharAt(lines[k], 0) = "+" THEN currentOldLineNumber
                ELSE currentOldLineNumber + 1,
                IF CharAt(lines[k], 0) = "-" THEN currentNewLineNumber
                ELSE currentNewLineNumber + 1)

\* the loop of lines 245-283 over the lines of one hunk, from line k on
RECURSIVE HunkOperations(_, _, _, _)
HunkOperations(lines, k, currentOldLineNumber, currentNewLineNumber) ==
    IF k > Len(lines) THEN <<>>
    ELSE LET operationType == CharAt(lines[k], 0)
             content       == SubstringFrom(lines[k], 1)
         IN  IF operationType = "+"
             THEN <<[type |-> "+", line |-> currentNewLineNumber - 1,
                     oldLine |-> currentOldLineNumber - 1,
                     newLine |-> currentNewLineNumber - 1, content |-> content]>>
                    \o HunkOperations(lines, k + 1, currentOldLineNumber,
                                      currentNewLineNumber + 1)
             ELSE IF operationType = "-"
             THEN <<[type |-> "-", line |-> currentOldLineNumber - 1,
                     oldLine |-> currentOldLineNumber - 1,
                     newLine |-> currentNewLineNumber - 1, content |-> content]>>
                    \o HunkOperations(lines, k + 1, currentOldLineNumber + 1,
                                      currentNewLineNumber)
             ELSE HunkOperations(lines, k + 1, currentOldLineNumber + 1,
                                 currentNewLineNumber + 1)

\* the loop of lines 240-284 over the hunks, from hunk h on
RECURSIVE PatchOperations(_, _)
PatchOperations(hunks, h) ==
    IF h > Len(hunks) THEN <<>>
    ELSE HunkOperations(hunks[h].lines, 1, hunks[h].oldStart, hunks[h].newStart)
            \o PatchOperations(hunks, h + 1)

\* new GhostSuggestionsState(): no file
EmptySuggestions == [files |-> <<>>]

\* a getText() that answers with a text kept from initialize(), whatever
\* the document holds now
GetText_atInitialize(ctx, text) ==
    IF ctx.hasDocument THEN [threw |-> FALSE, text |-> "f {\n\tr;\n}"]
    ELSE [threw |-> TRUE, text |-> ""]

\* document.getText(); reading a document that is not there throws
GetText(ctx, text) == IF ctx.hasDocument THEN [threw |-> FALSE, text |-> text]
                      ELSE [threw |-> TRUE, text |-> ""]

\* the guard of line 150 without its test of the document
NothingToSuggest_changesOnly(ctx, changes) == Len(changes) = 0

\* the guard of line 150
NothingToSuggest(ctx, changes) == ~ctx.hasDocument \/ Len(changes) = 0

\* generateSuggestions(changes) with the context ctx, the document reading text
GenerateSuggestions(ctx, text, changes) ==
    IF NothingToSuggest(ctx, changes)
    THEN [threw |-> FALSE, suggestions |-> EmptySuggestions]
    ELSE LET read == GetText(ctx, text)
             currentContent  == read.text
             modifiedContent == ModifiedContent(currentContent, changes)
             hunks == StructuredPatch(currentContent, modifiedContent)
         IN  [threw |-> read.threw,
              suggestions |->
                 IF read.threw THEN EmptySuggestions
                 ELSE [files |-> <<[operations |-> PatchOperations(hunks, 1)]>>]]

----------------------------------------------------------------------------
(* The engine: constructor, initialize, reset, processChunk (lines 24-78)  *)

\* the field initializers of lines 25-27
NewParser == [buffer |-> "", completedChanges |-> <<>>, lastProcessedIndex |-> 0]

\* line 28: no context yet
NoContext == [set |-> FALSE, hasDocument |-> FALSE]

\* reset() without line 46
ResetEngine_keepIndex(e) ==
    [e EXCEPT !.buffer = "", !.completedChanges = <<>>]

\* reset() on an engine e
ResetEngine(e) ==
    [e EXCEPT !.buffer = "", !.completedChanges = <<>>, !.lastProcessedIndex = 0]

\* line 58 with an assignment in the place of the append
AppendChunk_replace(buf, chunk) == chunk

\* line 58
AppendChunk(buf, chunk) == buf \o chunk

\* line 68 with the changes of this call alone
ChangesToSuggest_newOnly(allChanges, newChanges) == newChanges

\* generateSuggestions is called with all completed changes (line 68)
ChangesToSuggest(allChanges, newChanges) == allChanges

\* the outcome of a call: whether it threw, the StreamingParseResult it
\* returned and the document text it read (content)
NoResult == [call |-> "none", threw |-> FALSE, hasNewSuggestions |-> FALSE,
             isComplete |-> FALSE, suggestions |-> EmptySuggestions,
             content |-> ""]

\* lines 62-77: the engine after the extraction and the result returned, given
\* the new changes and what generateSuggestions made of the document text
ParseResult(after, newChanges, generated, text) ==
    [engine |-> after,
     out |-> [call |-> "processChunk",
              threw |-> generated.threw,
              hasNewSuggestions |-> Len(newChanges) > 0,
              isComplete |-> ~generated.threw /\ IsResponseComplete(after),
              suggestions |-> generated.suggestions,
              content |-> text]]

\* lines 68-77 on the engine after the extraction
Suggest(after, newChanges, ctx, text) ==
    ParseResult(after, newChanges,
                GenerateSuggestions(ctx, text,
                    ChangesToSuggest(after.completedChanges, newChanges)),
                text)

\* lines 62-65 and 110: the new changes are appended and the index is advanced
Extracted(appended, extracted, ctx, text) ==
    Suggest([appended EXCEPT !.lastProcessedIndex = extracted.lastProcessedIndex,
                             !.completedChanges = @ \o extracted.newChanges],
            extracted.newChanges, ctx, text)

\* lines 61-77 on the engine that holds the chunk
Appended(appended, ctx, text) ==
    Extracted(appended, ExtractCompletedChanges(appended), ctx, text)

\* processChunk with the append of line 58 before the check of lines 53-55
ProcessChunkOn_appendFirst(e, ctx, text, chunk) ==
    IF ~ctx.set
    THEN [engine |-> [e EXCEPT !.buffer = AppendChunk(e.buffer, chunk)],
          out |-> [NoResult EXCEPT !.call = "processChunk", !.threw = TRUE]]
    ELSE Appended([e EXCEPT !.buffer = AppendChunk(e.buffer, chunk)], ctx, text)

\* processChunk(chunk) on an engine e: the engine afterwards and the result
ProcessChunkOn(e, ctx, text, chunk) ==
    IF ~ctx.set
    THEN [engine |-> e, out |-> [NoResult EXCEPT !.call = "processChunk", !.threw = TRUE]]
    ELSE Appended([e EXCEPT !.buffer = AppendChunk(e.buffer, chunk)], ctx, text)

----------------------------------------------------------------------------
(* The texts of the model                                                  *)

\* one block of the grammar
Block(search, replace) ==
    "<change><search><![CDATA[" \o search \o "]]></search><replace><![CDATA["
        \o replace \o "]]></replace></change>"

\* the longest chunk the transport cuts out of a response, unless it hands
\* over the whole rest
MaxChunk == 3

\* the texts a document can hold
DocTabs == "f {\n\tr;\n}"
DocBlank == "x\n\ny\n"
Documents == {DocTabs, DocBlank}

\* the responses the transport can deliver
OneBlock == Block("\tr;", "\tq;")
TwoBlocks == "\n " \o Block("f {", "g {") \o "\n" \o Block("\tr;\n", "") \o " ok"
Overlapping == Block("x\n", "z\n") \o Block("x", "w") \o "<![CDATA["
WithMarker == Block("f <<<AUTOCOMPLETE_HERE>>>{", "f {\n\ts;") \o "<change>"
Malformed == "<change><search><![CDATA[test]]><replace><![CDATA[replacement]]></replace></change>"
Spaced == "<change> <search>\n<![CDATA[y]]>a]]></search>\t<replace><![CDATA[]]>]]>\n</replace> </change>\n<replace >"
Dangling == Block("none", "y") \o "<SEARCH id>"
Blank == " \n\t "
NestedMarker ==
    Block("f <<<AUTO" \o CURSOR_MARKER \o "COMPLETE_HERE>>>{",
          CURSOR_MARKER \o "g {" \o CURSOR_MARKER)
Responses == {OneBlock, TwoBlocks, Overlapping, WithMarker, Malformed, Spaced,
              Dangling, Blank, NestedMarker}

----------------------------------------------------------------------------
(* The state machine                                                       *)

Engine == [buffer |-> buffer, completedChanges |-> completedChanges,
           lastProcessedIndex |-> lastProcessedIndex]

\* whether the engine holds anything of a parse
InProgress(e) == e.buffer # "" \/ e.completedChanges # <<>> \/ e.lastProcessedIndex # 0

Init ==
    /\ context = NoContext
    /\ buffer = NewParser.buffer
    /\ completedChanges = NewParser.completedChanges
    /\ lastProcessedIndex = NewParser.lastProcessedIndex
    /\ documentText \in Documents
    /\ stream \in Responses
    /\ delivered = 0
    /\ nonEmptyChunks = 0
    /\ abandoned = FALSE
    /\ result = NoResult
    /\ fresh = [engine |-> NewParser, out |-> NoResult]
    /\ NoGemini

\* initialize(context): the context is stored and the engine reset; a new
\* response starts
Initialize(hasDocument, s) ==
    \E out \in {[NoResult EXCEPT !.call = "initialize"]} :
        /\ context' = [set |-> TRUE, hasDocument |-> hasDocument]
        /\ buffer' = ResetEngine(Engine).buffer
        /\ completedChanges' = ResetEngine(Engine).completedChanges
        /\ lastProcessedIndex' = ResetEngine(Engine).lastProcessedIndex
        /\ stream' = s
        /\ delivered' = 0
        /\ nonEmptyChunks' = 0
        /\ abandoned' = InProgress(Engine)
        /\ result' = out
        /\ fresh' = [engine |-> ResetEngine(NewParser), out |-> out]
        /\ UNCHANGED documentText
        /\ UNCHANGED geminiVars

\* reset(): the parse is abandoned; a new response starts
Reset(s) ==
    \E out \in {[NoResult EXCEPT !.call = "reset"]} :
        /\ buffer' = ResetEngine(Engine).buffer
        /\ completedChanges' = ResetEngine(Engine).completedChanges
        /\ lastProcessedIndex' = ResetEngine(Engine).lastProcessedIndex
        /\ stream' = s
        /\ delivered' = 0
        /\ nonEmptyChunks' = 0
        /\ abandoned' = InProgress(Engine)
        /\ result' = out
        /\ fresh' = [engine |-> NewParser, out |-> out]
        /\ UNCHANGED <<context, documentText>>
        /\ UNCHANGED geminiVars

\* processChunk(chunk), the chunk being the next n characters of the response
ProcessChunk(n) ==
    \E r \in {ProcessChunkOn(Engine, context, documentText,
                             Substring(stream, delivered, delivered + n))} :
        /\ buffer' = r.engine.buffer
        /\ completedChanges' = r.engine.completedChanges
        /\ lastProcessedIndex' = r.engine.lastProcessedIndex
        /\ result' = r.out
        /\ delivered' = delivered + n
        /\ nonEmptyChunks' = IF n = 0 \/ nonEmptyChunks = 2 THEN nonEmptyChunks
                             ELSE nonEmptyChunks + 1
        /\ fresh' = IF fresh.engine = Engine THEN r
                    ELSE ProcessChunkOn(fresh.engine, context, documentText,
                             Substring(stream, delivered, delivered + n))
        /\ UNCHANGED <<context, documentText, stream, abandoned>>
        /\ UNCHANGED geminiVars

\* the user edits the document while the response arrives
EditDocument(text) ==
    /\ text # documentText
    /\ documentText' = text
    /\ UNCHANGED <<context, buffer, completedChanges, lastProcessedIndex,
                   stream, delivered, nonEmptyChunks, abandoned, result, fresh>>
    /\ UNCHANGED geminiVars

\* the sizes the next chunk can have: up to MaxChunk characters, or all the
\* rest of the response at once
ChunkSizes ==
    {n \in 0..MaxChunk : n <= Len(stream) - delivered} \cup {Len(stream) - delivered}

Next ==
    \/ \E hasDocument \in BOOLEAN, s \in Responses : Initialize(hasDocument, s)
    \/ \E s \in Responses : Reset(s)
    \/ \E n \in ChunkSizes : ProcessChunk(n)
    \/ \E text \in Documents : EditDocument(text)

Spec == Init /\ [][Next]_vars

----------------------------------------------------------------------------
(* One application pass: a response of whole blocks, delivered in a single *)
(* chunk to an engine whose context has a document                         *)

\* the most blocks such a response holds
MaxBlocks == 2

\* a document with two indented lines
DocTwoTabs == "\ta;\n\tb;"

\* a document whose last line repeats the start of its first one
DocEcho == "a b\na"

\* the texts the document of a pass can hold
PassDocuments == Documents \cup {DocTwoTabs, DocEcho}

\* the payloads of the blocks: found verbatim, found without the trailing
\* line break, found on the normalized forms, found trimmed, found where
\* another is found, followed by blank lines, found in the replace text of
\* another only, or found nowhere
BlockPool ==
    { [search |-> "f {",     replace |-> "g {"],
      [search |-> "\tr;\n",  replace |-> ""],
      [search |-> "r;\n}",   replace |-> "R"],
      [search |-> "}\n",     replace |-> "]"],
      [search |-> "    r;",  replace |-> "  q;"],
      [search |-> "    b;",  replace |-> "    c;"],
      [search |-> "x\n",     replace |-> "z\n"],
      [search |-> "x",       replace |-> "w"],
      [search |-> " y ",     replace |-> "Y"],
      [search |-> "a",       replace |-> "e"],
      [search |-> "a\n",     replace |-> "c\n"],
      [search |-> "\tb;\n",  replace |-> "\tc;\n"],
      [search |-> "g {",     replace |-> "h {"],
      [search |-> "none",    replace |-> "n"] }

\* the lists of at most MaxBlocks payloads
BlockLists == UNION {[1..n -> BlockPool] : n \in 0..MaxBlocks}

\* the response that holds the blocks of a list, one after the other
RECURSIVE BlocksText(_, _)
BlocksText(list, k) ==
    IF k > Len(list) THEN ""
    ELSE Block(list[k].search, list[k].replace) \o BlocksText(list, k + 1)

PassResponses == {BlocksText(list, 1) : list \in BlockLists}

\* a new engine, the response and the document chosen
InitPass ==
    /\ context = NoContext
    /\ buffer = NewParser.buffer
    /\ completedChanges = NewParser.completedChanges
    /\ lastProcessedIndex = NewParser.lastProcessedIndex
    /\ documentText \in PassDocuments
    /\ stream \in PassResponses
    /\ delivered = 0
    /\ nonEmptyChunks = 0
    /\ abandoned = FALSE
    /\ result = NoResult
    /\ fresh = [engine |-> NewParser, out |-> NoResult]
    /\ NoGemini

\* initialize(context) with the document
InitializePass == ~context.set /\ Initialize(TRUE, stream)

\* processChunk(chunk), the chunk being the whole response
DeliverWhole ==
    /\ context.set /\ result.call = "initialize"
    /\ ProcessChunk(Len(stream))

NextPass == InitializePass \/ DeliverWhole

SpecPass == InitPass /\ [][NextPass]_vars

----------------------------------------------------------------------------
(* A session in which each chunk completes one block of the response       *)

\* the offset after the next block of the response
NextBlockEnd == IndexOfFrom(stream, "</change>", delivered) + Len("</change>")

\* processChunk(chunk), the chunk being the next block of the response
DeliverBlock ==
    /\ context.set /\ result.call \in {"initialize", "processChunk"}
    /\ delivered < Len(stream)
    /\ ProcessChunk(NextBlockEnd - delivered)

NextBlocks == InitializePass \/ DeliverBlock

SpecBlocks == InitPass /\ [][NextBlocks]_vars

----------------------------------------------------------------------------
(* A pass over payloads and documents that can be empty                    *)

\* the payloads: an empty search text, one that is the cursor marker alone,
\* a line break, a blank, and two that are found in a document
EmptyPool ==
    { [search |-> "",            replace |-> "n"],
      [search |-> CURSOR_MARKER, replace |-> "q"],
      [search |-> "\n",          replace |-> "n\n"],
      [search |-> " ",           replace |-> "s"],
      [search |-> "f {",         replace |-> "g {"],
      [search |-> "x",           replace |-> "w"] }

\* the texts of the document, the empty one among them
EmptyDocuments == Documents \cup {""}

\* a new engine, a response of at most MaxBlocks such blocks and a document
InitEmpty ==
    /\ context = NoContext
    /\ buffer = NewParser.buffer
    /\ completedChanges = NewParser.completedChanges
    /\ lastProcessedIndex = NewParser.lastProcessedIndex
    /\ documentText \in EmptyDocuments
    /\ stream \in {BlocksText(list, 1) :
                       list \in UNION {[1..n -> EmptyPool] : n \in 0..MaxBlocks}}
    /\ delivered = 0
    /\ nonEmptyChunks = 0
    /\ abandoned = FALSE
    /\ result = NoResult
    /\ fresh = [engine |-> NewParser, out |-> NoResult]
    /\ NoGemini

SpecEmpty == InitEmpty /\ [][NextPass]_vars

----------------------------------------------------------------------------
(* finishStream(): the finalizer.  Its source is not among the files under *)
(* src/; it is modelled from section 4.4 of the specification and from the *)
(* calls of the sanitization tests.                                        *)

\* the number of occurrences of a literal in a text, from offset from on
RECURSIVE CountOf(_, _, _)
CountOf(s, lit, from) ==
    IF IndexOfFrom(s, lit, from) = -1 THEN 0
    ELSE 1 + CountOf(s, lit, IndexOfFrom(s, lit, from) + Len(lit))

\* exactly one top-level block remains open in the unprocessed text
ExactlyOneOpen(rest) ==
    CountOf(rest, "<change>", 0) = 1 /\ IndexOf(rest, "</change>") = -1

\* a repair that closes a block whenever the unprocessed text holds the start
\* of its closing tag
Repair_wheneverClosing(rest) ==
    IF IndexOf(rest, "</change") # -1 THEN ">" ELSE ""

\* no repair at all
Repair_none(rest) == ""

\* the open block holds its search element and its replace element whole;
\* the sanitization tests name the case "should not fix when search/replace
\* pairs are incomplete"
PairComplete(rest) ==
    IndexOf(rest, "</search>") # -1 /\ IndexOf(rest, "</replace>") # -1

\* the repairs without the test of the pair
Repair_pairUnchecked(rest) ==
    IF ~ExactlyOneOpen(rest) THEN ""
    ELSE IF EndsWith(rest, "</change") THEN ">"
    ELSE IF EndsWith(rest, "</replace>") THEN "</change>"
    ELSE ""

\* the two conservative repairs: what is appended to the buffer
Repair(rest) ==
    IF ~ExactlyOneOpen(rest) \/ ~PairComplete(rest) THEN ""
    ELSE IF EndsWith(rest, "</change") THEN ">"
    ELSE IF EndsWith(rest, "</replace>") THEN "</change>"
    ELSE ""

\* the buffer after the repairs
Sanitized(e) == e.buffer \o Repair(SubstringFrom(e.buffer, e.lastProcessedIndex))

\* finishStream() on an engine e: the repairs, then the extractor run once
\* more and the result built as processChunk builds it
FinishStreamOn(e, ctx, text) ==
    [engine |-> Appended([e EXCEPT !.buffer = Sanitized(e)], ctx, text).engine,
     out    |-> [Appended([e EXCEPT !.buffer = Sanitized(e)], ctx, text).out
                     EXCEPT !.call = "finishStream"]]

\* a block without the end of its replace element, and a block opened inside
\* a block that was never closed
NoReplaceClose == "<change><search><![CDATA[\tr;]]></search><replace><![CDATA[\tq;]]></change"
TwoOpen == "<change><search><![CDATA[f {]]></search>" \o Block("\tr;", "\tq;")

\* a complete block followed by a block without the end of its replace element
CompleteThenOpen == Block("f {", "g {") \o NoReplaceClose

\* the responses whose transport can end at any character
FinishResponses ==
    {OneBlock, TwoBlocks, WithMarker, Spaced, NoReplaceClose, TwoOpen,
     CompleteThenOpen}

InitFinish ==
    /\ context = NoContext
    /\ buffer = NewParser.buffer
    /\ completedChanges = NewParser.completedChanges
    /\ lastProcessedIndex = NewParser.lastProcessedIndex
    /\ documentText \in Documents
    /\ stream \in FinishResponses
    /\ delivered = 0
    /\ nonEmptyChunks = 0
    /\ abandoned = FALSE
    /\ result = NoResult
    /\ fresh = [engine |-> NewParser, out |-> NoResult]
    /\ NoGemini

\* initialize(context) with the document
InitializeFinish == ~context.set /\ Initialize(TRUE, stream)

\* processChunk(chunk) with what arrives of the response before the
\* transport ends
DeliverPrefix(n) ==
    /\ context.set /\ result.call = "initialize"
    /\ ProcessChunk(n)

\* finishStream(): the transport signals that no chunk will follow
FinishStream ==
    /\ context.set
    /\ \E r \in {FinishStreamOn(Engine, context, documentText)} :
          /\ buffer' = r.engine.buffer
          /\ completedChanges' = r.engine.completedChanges
          /\ lastProcessedIndex' = r.engine.lastProcessedIndex
          /\ result' = r.out
    /\ UNCHANGED <<context, documentText, stream, delivered, nonEmptyChunks,
                   abandoned, fresh>>
    /\ UNCHANGED geminiVars

NextFinish ==
    \/ InitializeFinish
    \/ \E n \in 0..Len(stream) : DeliverPrefix(n)
    \/ FinishStream

SpecFinish == InitFinish /\ [][NextFinish]_vars

----------------------------------------------------------------------------
(* One session on a document that is edited while the response arrives     *)

\* the text the document holds when initialize() is called
TextAtInitialize == DocTabs

\* the responses of the session
SessionResponses == {OneBlock, TwoBlocks, Overlapping}

InitSession ==
    /\ context = NoContext
    /\ buffer = NewParser.buffer
    /\ completedChanges = NewParser.completedChanges
    /\ lastProcessedIndex = NewParser.lastProcessedIndex
    /\ documentText = TextAtInitialize
    /\ stream \in SessionResponses
    /\ delivered = 0
    /\ nonEmptyChunks = 0
    /\ abandoned = FALSE
    /\ result = NoResult
    /\ fresh = [engine |-> NewParser, out |-> NoResult]
    /\ NoGemini

\* initialize(context): the session starts
InitializeSession == ~context.set /\ Initialize(TRUE, stream)

\* processChunk(chunk) in the session
ChunkOfSession(n) == context.set /\ ProcessChunk(n)

\* the user edits the document during the session
EditInSession(text) == context.set /\ EditDocument(text)

NextSession ==
    \/ InitializeSession
    \/ \E n \in ChunkSizes : ChunkOfSession(n)
    \/ \E text \in Documents : EditInSession(text)

SpecSession == InitSession /\ [][NextSession]_vars

----------------------------------------------------------------------------
(* Properties of the stream buffer and of the change extractor             *)

\* a step of processChunk: it returns a result and leaves the document alone
IsProcessChunkStep == result'.call = "processChunk" /\ documentText' = documentText

\* the last call was a processChunk that returned
Returned == result.call = "processChunk" /\ ~result.threw

\* C1: on an initialized engine the buffer is the concatenation, in call
\* order, of the chunks passed to processChunk since the last
\* initialize()/reset(): the part of the response delivered so far
C1_BufferIsConcatenation ==
    context.set => buffer = Substring(stream, 0, delivered)

\* two non-empty chunks and more have built up a response with two blocks
C1_Witness ==
    /\ context.set /\ nonEmptyChunks = 2 /\ Returned
    /\ buffer = TwoBlocks /\ delivered = Len(TwoBlocks)

\* a block of s starts between from and to and ends at to, and no block
\* is found from to on
EndsLastBlock(s, from, to) ==
    /\ \E p \in from..(to - 1) : MatchAt(s, p).found /\ MatchAt(s, p).end = to
    /\ ~RegexExec(s, to).found

CursorInRange == 0 <= lastProcessedIndex /\ lastProcessedIndex <= Len(buffer)

CursorStep ==
    IsProcessChunkStep /\ context.set =>
        /\ lastProcessedIndex <= lastProcessedIndex'
        /\ IF result'.hasNewSuggestions
           THEN EndsLastBlock(buffer', lastProcessedIndex, lastProcessedIndex')
           ELSE lastProcessedIndex' = lastProcessedIndex

\* C2: lastProcessedIndex stays between 0 and the length of the buffer and
\* no processChunk decreases it; a call that extracted a block leaves it just
\* past the last block that call matched, any other call leaves it unchanged
C2_CursorMonotone == []CursorInRange /\ [][CursorStep]_vars

\* a call extracted the second block of a response, with text left behind it
C2_Witness ==
    /\ context.set /\ Returned /\ result.hasNewSuggestions
    /\ Len(completedChanges) = 2 /\ nonEmptyChunks = 2
    /\ 0 < lastProcessedIndex /\ lastProcessedIndex < Len(buffer)

\* the changes of the blocks a scan of the whole text s finds
BlocksOf(s) ==
    [i \in 1..Len(ExecLoop(s, 0)) |-> ParsedChangeOf(ExecLoop(s, 0)[i])]

\* C3: completedChanges holds one entry for each fully matched block of the
\* buffer, in the order of the buffer; no block is extracted twice, whatever
\* is appended after it
C3_NoReextraction ==
    context.set => completedChanges = BlocksOf(buffer)

\* two blocks are extracted and a later call appended text after them
C3_Witness ==
    /\ context.set /\ Returned /\ ~result.hasNewSuggestions
    /\ Len(completedChanges) = 2
    /\ lastProcessedIndex < Len(buffer)

\* C4: once a response is delivered whole, in whatever chunks, the list of
\* changes is the list that the response yields as a single chunk
C4_ChunkBoundaryIndependence ==
    context.set /\ delivered = Len(stream) =>
        completedChanges =
            ProcessChunkOn(NewParser, context, documentText, stream).engine.completedChanges

\* a response with one block arrived in more than one chunk
C4_Witness ==
    /\ context.set /\ Returned /\ stream = OneBlock /\ delivered = Len(stream)
    /\ nonEmptyChunks = 2 /\ Len(completedChanges) = 1

----------------------------------------------------------------------------
(* Properties of the completion detector                                   *)

\* an opening tag of the given name (in lower case) stands at offset p of s
\* and ends before offset q: the name, then ">" or a white space and the
\* nearest ">", whatever the case of the letters
OpensAt(s, name, p, q) ==
    /\ LiteralNoCase(s, name, p) # -1
    /\ CharAt(s, q - 1) = ">"
    /\ \/ q = p + Len(name) + 1
       \/ /\ q > p + Len(name) + 1
          /\ IsWhiteSpace(CharAt(s, p + Len(name)))
          /\ \A i \in (p + Len(name) + 1)..(q - 2) : CharAt(s, i) # ">"

\* s holds an opening tag with no closing tag after it
DanglingTag(s, name, close) ==
    \E p \in 0..Len(s) :
        /\ LiteralNoCase(s, name, p) # -1
        /\ \E q \in (p + 1)..Len(s) :
              /\ OpensAt(s, name, p, q)
              /\ \A r \in q..Len(s) : LiteralNoCase(s, close, r) = -1

\* s holds the opening of a CDATA section with no "]]>" after it
DanglingCData(s) ==
    \E p \in 0..Len(s) :
        /\ LiteralNoCase(s, "<![cdata[", p) # -1
        /\ \A r \in (p + 9)..Len(s) : ~StartsWithAt(s, "]]>", r)

\* one of the four dangling conditions holds in s
HasDangling(s) ==
    \/ DanglingTag(s, "<change", "</change>")
    \/ DanglingTag(s, "<search", "</search>")
    \/ DanglingTag(s, "<replace", "</replace>")
    \/ DanglingCData(s)

\* C5: when the trimmed buffer is not empty, processChunk reports
\* isComplete exactly when a change was completed so far and none of the
\* four dangling conditions holds in the trimmed buffer
C5_CompleteIffNoDangling ==
    context.set /\ Returned /\ Trim(buffer) # "" =>
        (result.isComplete <=>
            Len(completedChanges) > 0 /\ ~HasDangling(Trim(buffer)))

\* changes are completed and yet the buffer dangles: the call reports false
C5_Witness ==
    /\ context.set /\ Returned /\ Len(completedChanges) = 2
    /\ HasDangling(Trim(buffer)) /\ ~result.isComplete

\* C6: when the buffer that holds the chunk is empty or all white space,
\* processChunk returns hasNewSuggestions = false, isComplete = true and
\* suggestions that hold nothing
C6_BlankBuffer ==
    /\ context.set /\ result.call = "processChunk"
    /\ \A i \in 0..(Len(buffer) - 1) : IsWhiteSpace(CharAt(buffer, i))
    => /\ ~result.threw
       /\ ~result.hasNewSuggestions
       /\ result.isComplete
       /\ result.suggestions = EmptySuggestions

\* a response of white space alone arrived, in more than one chunk
C6_Witness ==
    /\ context.set /\ Returned /\ buffer = Blank /\ nonEmptyChunks = 2
    /\ result.isComplete

----------------------------------------------------------------------------
(* Properties of the engine                                                *)

\* C7: on an engine that was never initialized processChunk throws for
\* every chunk and leaves the engine as it was: the buffer empty, no change
\* recorded, the index 0
C7_UninitializedThrows ==
    ~context.set =>
        /\ buffer = "" /\ completedChanges = <<>> /\ lastProcessedIndex = 0
        /\ result.call = "processChunk" =>
              result.threw /\ ~result.hasNewSuggestions
                 /\ result.suggestions = EmptySuggestions

\* processChunk was called with non-empty chunks before any initialize()
C7_Witness ==
    /\ ~context.set /\ result.call = "processChunk" /\ result.threw
    /\ nonEmptyChunks = 2 /\ delivered > 0

\* C8: on an initialized engine processChunk returns a result and never
\* throws, whatever the chunks hold and whether or not the context has a
\* document
C8_InitializedNeverThrows ==
    context.set /\ result.call = "processChunk" => ~result.threw

\* a block was completed under a context without a document
C8_Witness ==
    /\ context.set /\ ~context.hasDocument /\ Returned
    /\ Len(completedChanges) > 0 /\ result.hasNewSuggestions
    /\ result.suggestions = EmptySuggestions

\* C9: reset() and initialize() clear the buffer, the changes and the index
\* in whatever state they are called, and from then on every processChunk
\* returns what a newly constructed engine, given the same context and the
\* same chunks, returns and leaves the engine in the state of that engine
C9_ResetLikeFresh ==
    /\ result.call \in {"reset", "initialize"} =>
          buffer = "" /\ completedChanges = <<>> /\ lastProcessedIndex = 0
    /\ fresh.engine = Engine
    /\ fresh.out = result

\* a parse was abandoned with changes extracted, and the next response
\* completed a block
C9_Witness ==
    /\ context.set /\ abandoned /\ Returned /\ result.hasNewSuggestions
    /\ stream = OneBlock /\ fresh.out = result /\ fresh.engine = Engine
    /\ nonEmptyChunks = 2

SuggestionsAreCumulative ==
    context.set /\ Returned =>
        result.suggestions =
            GenerateSuggestions(context, result.content, completedChanges).suggestions

SameSuggestionsStep ==
    /\ IsProcessChunkStep /\ context.set
    /\ result.call = "processChunk" /\ ~result.threw /\ ~result'.threw
    /\ ~result'.hasNewSuggestions /\ result'.content = result.content
    => result'.suggestions = result.suggestions

\* C10: the suggestions processChunk returns are computed from all the
\* changes completed so far in the session; a call that completes no change
\* returns the suggestions of the call before it, the document being the same
C10_CumulativeSuggestions ==
    []SuggestionsAreCumulative /\ [][SameSuggestionsStep]_vars

\* a call that completed nothing returned the operations of an earlier change
C10_Witness ==
    /\ context.set /\ Returned /\ ~result.hasNewSuggestions
    /\ Len(completedChanges) > 0 /\ nonEmptyChunks = 2
    /\ result.suggestions # EmptySuggestions
    /\ result.suggestions.files[1].operations # <<>>

----------------------------------------------------------------------------
(* Properties of the edit applier                                          *)

\* the matches the pass of the last call accepted (appliedChanges, line 212)
Accepted == AppliedChanges(result.content, completedChanges, Len(completedChanges))

\* a call of processChunk returned what it made of a document
PassDone == Returned /\ context.hasDocument

\* no two entries of a list of accepted matches have intersecting ranges
PairwiseDisjoint(applied) ==
    \A i, j \in 1..Len(applied) :
        i # j => ~(/\ applied[i].startIndex < applied[j].endIndex
                   /\ applied[j].startIndex < applied[i].endIndex)

\* C11: in every application pass, whatever the completed changes and the
\* document, no two accepted matches have intersecting ranges: for accepted
\* i # j, start_i < end_j and start_j < end_i do not both hold
C11_AcceptedRangesDisjoint == PassDone => PairwiseDisjoint(Accepted)

\* a pass accepted the matches of two changes
C11_Witness ==
    /\ PassDone /\ Len(completedChanges) = 2 /\ Len(Accepted) = 2
    /\ Accepted[1].startIndex # Accepted[2].startIndex

\* lines 173-176: the range a change resolves to in a text, if any
RangeOf(content, change) ==
    [found      |-> FindBestMatch(content, FilterChange(change).search) # -1,
     startIndex |-> FindBestMatch(content, FilterChange(change).search),
     endIndex   |-> FindBestMatch(content, FilterChange(change).search)
                        + Len(FilterChange(change).search)]

\* two resolved ranges intersect
Intersect(a, b) ==
    /\ a.found /\ b.found
    /\ a.startIndex < b.endIndex /\ b.startIndex < a.endIndex

\* the pass had two changes and their resolved ranges intersect
TwoIntersecting ==
    /\ PassDone /\ Len(completedChanges) = 2
    /\ Intersect(RangeOf(result.content, completedChanges[1]),
                 RangeOf(result.content, completedChanges[2]))

\* the pass over the changes made what a pass over the change alone makes
SameAsAlone(content, changes, alone, range) ==
    /\ Len(AppliedChanges(content, changes, Len(changes))) = 1
    /\ AppliedChanges(content, changes, Len(changes))[1].startIndex = range.startIndex
    /\ AppliedChanges(content, changes, Len(changes))[1].endIndex = range.endIndex
    /\ ModifiedContent(content, changes) = ModifiedContent(content, <<alone>>)
    /\ result.suggestions = GenerateSuggestions(context, content, <<alone>>).suggestions

\* C12: when the resolved ranges of two changes intersect, the one extracted
\* first is applied and the later one is dropped without an error; the
\* hypothetical text is the text the earlier change alone gives
C12_FirstOfIntersectingWins ==
    TwoIntersecting =>
        SameAsAlone(result.content, completedChanges, completedChanges[1],
                    RangeOf(result.content, completedChanges[1]))

\* two different changes with intersecting ranges, the later one starting
\* before the earlier one; the text was edited
C12_Witness ==
    /\ TwoIntersecting
    /\ RangeOf(result.content, completedChanges[2]).startIndex
          < RangeOf(result.content, completedChanges[1]).startIndex
    /\ ModifiedContent(result.content, completedChanges) # result.content

\* the changes of a list, from the k-th on, whose search text the matcher
\* locates in the text
RECURSIVE Resolvable(_, _, _)
Resolvable(content, changes, k) ==
    IF k > Len(changes) THEN <<>>
    ELSE (IF RangeOf(content, changes[k]).found THEN <<changes[k]>> ELSE <<>>)
            \o Resolvable(content, changes, k + 1)

\* the operations of the suggestions that lead from a text to another
OperationsTo(content, modified) ==
    PatchOperations(StructuredPatch(content, modified), 1)

\* the pass over the changes made the text, and returned the operations, of
\* a pass over the kept ones
SameAsKept(content, changes, kept) ==
    /\ ModifiedContent(content, changes) = ModifiedContent(content, kept)
    /\ Len(AppliedChanges(content, changes, Len(changes))) <= Len(kept)
    /\ result.suggestions.files[1].operations
          = OperationsTo(content, ModifiedContent(content, kept))

\* C13: a change whose search text cannot be located in the document is
\* dropped and the pass goes on: the hypothetical text made from a list that
\* holds such changes is the text made from the list without them
C13_UnresolvableDropped ==
    PassDone /\ Len(completedChanges) > 0 =>
        SameAsKept(result.content, completedChanges,
                   Resolvable(result.content, completedChanges, 1))

\* the first of two changes was not located, the second one was applied
C13_Witness ==
    /\ PassDone /\ Len(completedChanges) = 2
    /\ ~RangeOf(result.content, completedChanges[1]).found
    /\ Len(Accepted) = 1
    /\ ModifiedContent(result.content, completedChanges) # result.content
    /\ result.suggestions.files[1].operations # <<>>

----------------------------------------------------------------------------
(* Properties of the matcher                                               *)

\* the offsets at which a region of the text starts that differs from the
\* pattern in the form of its white space only
RegionStarts(content, searchPattern) ==
    {a \in 0..Len(content) :
        \E b \in (a + 1)..Len(content) :
            NormalizeWhitespace(Substring(content, a, b))
                = NormalizeWhitespace(searchPattern)}

\* the pattern is not in the text as it stands, but a region of the text
\* differs from it in white space form only and the normalized pattern is in
\* the normalized text
WhitespaceFormOnly(content, searchPattern) ==
    /\ IndexOf(content, searchPattern) = -1
    /\ TrailingNewlineMatch(content, searchPattern) = -1
    /\ IndexOf(NormalizeWhitespace(content), NormalizeWhitespace(searchPattern)) # -1
    /\ RegionStarts(content, searchPattern) # {}

\* the matcher returns the offset at which such a region starts
AtRegionStart(content, searchPattern) ==
    WhitespaceFormOnly(content, searchPattern) =>
        FindBestMatch(content, searchPattern) \in RegionStarts(content, searchPattern)

\* C14: when a search text differs from a region of the document in white
\* space form only (tabs or 4 spaces, line ends, blanks at line ends), so that
\* the exact match fails and the normalized pattern is in the normalized
\* document, the matcher returns the offset of the original document at which
\* the region starts, wherever the region is and whatever precedes it
C14_NormalizedMatchAtRegionStart ==
    PassDone =>
        \A k \in 1..Len(completedChanges) :
            AtRegionStart(result.content, FilterChange(completedChanges[k]).search)

\* a pattern indented with spaces was located at the start of a region
\* indented with a tab, no tab standing before the region
C14_Witness ==
    /\ PassDone /\ Len(completedChanges) = 1
    /\ WhitespaceFormOnly(result.content, completedChanges[1].search)
    /\ Len(Accepted) = 1 /\ Accepted[1].startIndex > 0
    /\ Accepted[1].startIndex \in RegionStarts(result.content, completedChanges[1].search)

----------------------------------------------------------------------------
(* Two blocks in one chunk                                                 *)

\* the length of the document text that matched the pattern at offset start:
\* the pattern itself, the pattern without its last line break, the shortest
\* text whose normalized form is the normalized pattern, or the trimmed pattern
MatchedLength(content, searchPattern, start) ==
    IF IndexOf(content, searchPattern) # -1 THEN Len(searchPattern)
    ELSE IF TrailingNewlineMatch(content, searchPattern) # -1
    THEN Len(searchPattern) - 1
    ELSE IF IndexOf(NormalizeWhitespace(content), NormalizeWhitespace(searchPattern)) # -1
    THEN IF start \in RegionStarts(content, searchPattern)
         THEN MinOf({n \in 1..(Len(content) - start) :
                        NormalizeWhitespace(Substring(content, start, start + n))
                            = NormalizeWhitespace(searchPattern)})
         ELSE Len(searchPattern)
    ELSE Len(Trim(searchPattern))

\* the region of the document a change resolves to, if any
RegionOf(content, change) ==
    [found      |-> RangeOf(content, change).found,
     startIndex |-> RangeOf(content, change).startIndex,
     endIndex   |-> RangeOf(content, change).startIndex
                        + MatchedLength(content, FilterChange(change).search,
                                        RangeOf(content, change).startIndex)]

\* the response is the blocks of two changes that resolve to disjoint regions
DisjointPair(content, list) ==
    /\ stream = BlocksText(list, 1)
    /\ RegionOf(content, list[1]).found /\ RegionOf(content, list[2]).found
    /\ ~Intersect(RegionOf(content, list[1]), RegionOf(content, list[2]))

\* a text with the ranges of two accepted matches, lo before hi, replaced
TwoEdits(content, lo, hi) ==
    Substring(content, 0, lo.startIndex) \o lo.replaceContent
        \o Substring(content, lo.endIndex, hi.startIndex) \o hi.replaceContent
        \o SubstringFrom(content, hi.endIndex)

\* both changes were accepted and the hypothetical text holds both edits
BothEdits(content, changes, applied) ==
    /\ Len(applied) = 2
    /\ applied[1].searchContent = changes[1].search
    /\ applied[2].searchContent = changes[2].search
    /\ ModifiedContent(content, changes) =
          IF applied[1].startIndex < applied[2].startIndex
          THEN TwoEdits(content, applied[1], applied[2])
          ELSE TwoEdits(content, applied[2], applied[1])
    /\ result.suggestions.files[1].operations
          = OperationsTo(content, ModifiedContent(content, changes))

\* C15: two changes delivered in one chunk whose search texts resolve to
\* disjoint regions of the document are both entries of completedChanges, in
\* the order of the buffer, and both edits are in the hypothetical text
C15_BothDisjointEditsApplied ==
    PassDone =>
        \A list \in [1..2 -> BlockPool] :
            DisjointPair(result.content, list) =>
                /\ completedChanges = list
                /\ BothEdits(result.content, completedChanges, Accepted)

\* two changes found verbatim in disjoint regions, the later block holding
\* the earlier region, were both applied
C15_Witness ==
    /\ PassDone /\ documentText = DocTabs
    /\ \E list \in [1..2 -> BlockPool] :
          /\ DisjointPair(result.content, list)
          /\ IndexOf(result.content, list[1].search) > IndexOf(result.content, list[2].search)
          /\ IndexOf(result.content, list[2].search) # -1
          /\ completedChanges = list
    /\ BothEdits(result.content, completedChanges, Accepted)

----------------------------------------------------------------------------
(* Properties of the finalizer                                             *)

\* the text of the buffer the extractor has not consumed
Unprocessed == SubstringFrom(buffer, lastProcessedIndex)

\* what a text lacks to end its one open block: ">" after "</change", or
\* "</change>" after a closed replace element with no "</change" at all
MissingTail(rest) ==
    IF EndsWith(rest, "</change") THEN ">"
    ELSE IF EndsWith(rest, "</replace>") /\ IndexOf(rest, "</change") = -1
    THEN "</change>"
    ELSE ""

\* the text holds exactly one open block, truncated in its closing tag and
\* whole up to there
OpenTruncated(rest) ==
    /\ CountOf(rest, "<change>", 0) = 1
    /\ IndexOf(rest, "</change>") = -1
    /\ MissingTail(rest) # ""
    /\ RegexExec(rest \o MissingTail(rest), 0).found
    /\ RegexExec(rest \o MissingTail(rest), 0).end = Len(rest \o MissingTail(rest))

\* a step of finishStream()
FinishStep == result'.call = "finishStream" /\ delivered' = delivered

\* the call completed the block: one more change, with the payloads of the
\* block, and a result that says so
Repaired(rest, tail) ==
    /\ buffer' = buffer \o tail
    /\ Len(completedChanges') = Len(completedChanges) + 1
    /\ SubSeq(completedChanges', 1, Len(completedChanges)) = completedChanges
    /\ completedChanges'[Len(completedChanges')]
          = ParsedChangeOf(RegexExec(rest \o tail, 0))
    /\ lastProcessedIndex' = Len(buffer')
    /\ ~result'.threw /\ result'.hasNewSuggestions /\ result'.isComplete

RepairStep == FinishStep /\ OpenTruncated(Unprocessed) => Repaired(Unprocessed, MissingTail(Unprocessed))

SecondFinishStep ==
    FinishStep /\ result.call = "finishStream" =>
        /\ buffer' = buffer
        /\ completedChanges' = completedChanges
        /\ lastProcessedIndex' = lastProcessedIndex
        /\ ~result'.hasNewSuggestions

\* C17: finishStream() is idempotent: a second or further call in a session
\* repairs nothing more, appends nothing to the buffer and adds no entry to
\* completedChanges; the changes after any number of calls are those after one
C17_FinishIdempotent == [][SecondFinishStep]_vars

\* a second call after a call that added ">" and completed a change
C17_Witness ==
    /\ result.call = "finishStream" /\ ~result.hasNewSuggestions
    /\ stream = OneBlock /\ delivered = Len(stream) - 1
    /\ buffer = stream
    /\ completedChanges = <<[search |-> "\tr;", replace |-> "\tq;"]>>

----------------------------------------------------------------------------
(* No repair while the response arrives                                    *)

\* the blocks of the responses
KnownBlocks ==
    {Block("\tr;", "\tq;"), Block("f {", "g {"), Block("\tr;\n", ""),
     Block("x\n", "z\n"), Block("x", "w"), Block("none", "y"),
     Block("f <<<AUTOCOMPLETE_HERE>>>{", "f {\n\ts;")}

\* the offsets at which a block starts that the end of the text truncates
\* in its closing tag: between 1 and 9 characters of "</change>" are missing
TruncatedStarts(s) ==
    {Len(s) - (Len(b) - k) : b \in KnownBlocks, k \in 1..9} \cap
    {p \in 0..Len(s) :
        \E b \in KnownBlocks :
            /\ Len(s) - p < Len(b) /\ Len(s) - p >= Len(b) - 9
            /\ SubstringFrom(s, p) = Substring(b, 0, Len(s) - p)}

\* the block that starts at offset p is not emitted and the response is
\* reported incomplete
LeftOpen(p) ==
    /\ lastProcessedIndex <= p
    /\ completedChanges = BlocksOf(Substring(buffer, 0, p))
    /\ ~result.isComplete

\* C18: no repair is applied while the response arrives: after any sequence
\* of processChunk calls that leaves the buffer ending in a truncated closing
\* tag ("</replace></change", "</replace><", ...), the truncated block is not
\* emitted, no new change is reported for it and isComplete is false; the
\* buffer holds the chunks and no other character
C18_NoRepairWhileStreaming ==
    context.set /\ Returned =>
        \A p \in TruncatedStarts(buffer) :
            LeftOpen(p) /\ buffer = Substring(stream, 0, delivered)

\* after a first block was emitted, the buffer ends with "</change" of the
\* second one
C18_Witness ==
    /\ context.set /\ Returned /\ stream = TwoBlocks
    /\ EndsWith(buffer, "</replace></change")
    /\ TruncatedStarts(buffer) # {}
    /\ Len(completedChanges) = 1 /\ ~result.hasNewSuggestions /\ ~result.isComplete

----------------------------------------------------------------------------
(* The cursor marker                                                       *)

\* a change holds the cursor marker in neither of its texts
MarkerFree(change) ==
    /\ IndexOf(change.search, CURSOR_MARKER) = -1
    /\ IndexOf(change.replace, CURSOR_MARKER) = -1

\* C19: every change held in completedChanges has the cursor marker removed:
\* neither its search text nor its replace text holds the marker, whatever
\* the payloads were, also when the marker stood several times in a payload
\* or when taking one marker out joins the two fragments around it
C19_NoMarkerInChanges ==
    context.set => \A i \in 1..Len(completedChanges) : MarkerFree(completedChanges[i])

\* the marker of a payload that held it once was taken out
C19_Witness ==
    /\ context.set /\ Returned /\ Len(completedChanges) = 1
    /\ stream = WithMarker /\ nonEmptyChunks = 2
    /\ completedChanges[1].search = "f {"
    /\ MarkerFree(completedChanges[1])

----------------------------------------------------------------------------
(* The document text a call works on                                       *)

\* the suggestions are those of the completed changes on a given text
SuggestionsOn(text, changes, suggestions) ==
    IF Len(changes) = 0 THEN suggestions = EmptySuggestions
    ELSE /\ Len(suggestions.files) = 1
         /\ suggestions.files[1].operations
               = OperationsTo(text, ModifiedContent(text, changes))

ReadsCurrentText ==
    IsProcessChunkStep /\ context.set /\ ~result'.threw =>
        /\ result'.content = documentText
        /\ SuggestionsOn(documentText, completedChanges', result'.suggestions)

----------------------------------------------------------------------------
(* Properties of the matcher cascade                                       *)

\* the offsets at which a text occurs verbatim in another
Occurrences(content, pattern) ==
    {p \in 0..(Len(content) - Len(pattern)) :
        Substring(content, p, p + Len(pattern)) = pattern}

\* the search text of the k-th change of the pass, as the matcher gets it
SearchOf(k) == FilterChange(completedChanges[k]).search

\* the matcher on a search text that occurs verbatim, or that no strategy
\* finds
ExactOrNothing(content, search) ==
    /\ (search # "" /\ Occurrences(content, search) # {}) =>
           FindBestMatch(content, search) = MinOf(Occurrences(content, search))
    /\ (/\ Occurrences(content, search) = {}
        /\ TrailingNewlineMatch(content, search) = -1
        /\ NormalizedMatch(content, search) = -1
        /\ TrimmedMatch(content, search) = -1) =>
           FindBestMatch(content, search) = -1

\* C24: for every change of a pass, when its search text (not empty) occurs
\* verbatim in the document the matcher returns the offset of the first
\* occurrence, and when none of the four strategies finds it the matcher
\* returns -1; the first change of the pass is accepted at the first
\* verbatim occurrence of its search text
C24_ExactMatchFirst ==
    PassDone =>
        /\ \A k \in 1..Len(completedChanges) :
              ExactOrNothing(result.content, SearchOf(k))
        /\ (Len(completedChanges) > 0
              /\ Occurrences(result.content, SearchOf(1)) # {}) =>
               /\ Accepted # <<>>
               /\ Accepted[1].startIndex
                      = MinOf(Occurrences(result.content, SearchOf(1)))

\* a search text found verbatim twice was accepted at its first occurrence,
\* and another one of the same pass was found by no strategy
C24_Witness ==
    /\ PassDone /\ Len(completedChanges) = 2
    /\ Cardinality(Occurrences(result.content, SearchOf(1))) = 2
    /\ Accepted[1].startIndex = 0
    /\ FindBestMatch(result.content, SearchOf(2)) = -1

\* a text without its last character
Breakless(search) == Substring(search, 0, Len(search) - 1)

\* the occurrences of a text that a line break or the end of the document
\* follows
FollowedByBreak(content, pattern) ==
    {p \in Occurrences(content, pattern) :
        \/ p + Len(pattern) = Len(content)
        \/ CharAt(content, p + Len(pattern)) = "\n"}

\* a search text for the trailing-line-break strategy: it ends with a line
\* break and does not occur verbatim
BreakEnded(content, search) ==
    /\ Len(search) > 1 /\ EndsWith(search, "\n")
    /\ Occurrences(content, search) = {}

\* the original statement of C25: for a search text that ends with a line
\* break and does not occur verbatim, the matcher returns an occurrence of
\* the break-less text that a line break or the end of the document follows
\* whenever there is one, and never an occurrence that another character
\* follows
C25_BreaklessOccurrenceFollowedByBreak ==
    PassDone =>
        \A k \in 1..Len(completedChanges) :
            BreakEnded(result.content, SearchOf(k)) =>
                /\ FollowedByBreak(result.content, Breakless(SearchOf(k))) # {} =>
                       FindBestMatch(result.content, SearchOf(k))
                           \in FollowedByBreak(result.content, Breakless(SearchOf(k)))
                /\ FindBestMatch(result.content, SearchOf(k))
                       \notin (Occurrences(result.content, Breakless(SearchOf(k)))
                                 \ FollowedByBreak(result.content, Breakless(SearchOf(k))))

\* the strategy on a search text it is for: it looks at the first occurrence
\* of the break-less text only
FirstOccurrenceDecides(content, search) ==
    LET occurrences == Occurrences(content, Breakless(search))
        accepted == FollowedByBreak(content, Breakless(search))
    IN  /\ TrailingNewlineMatch(content, search) \in {-1} \cup accepted
        /\ IF occurrences # {} /\ MinOf(occurrences) \in accepted
           THEN FindBestMatch(content, search) = MinOf(occurrences)
           ELSE FindBestMatch(content, search)
                    = IF IndexOf(NormalizeWhitespace(content),
                                 NormalizeWhitespace(search)) # -1
                      THEN NormalizedMatch(content, search)
                      ELSE TrimmedMatch(content, search)

\* C25, amended: for a search text that ends with a line break and does
\* not occur verbatim, the matcher returns the first occurrence of the
\* break-less text when a line break or the end of the document follows it;
\* the trailing-line-break strategy accepts no other occurrence, and when
\* it fails the normalized and the trimmed strategies decide
C25_FirstBreaklessOccurrence ==
    PassDone =>
        \A k \in 1..Len(completedChanges) :
            BreakEnded(result.content, SearchOf(k)) =>
                FirstOccurrenceDecides(result.content, SearchOf(k))

\* the break-less text of the first change ends the document and the change
\* was accepted there, where the trimmed strategy would not have found it
C25_Witness ==
    /\ PassDone /\ Len(completedChanges) > 0
    /\ BreakEnded(result.content, SearchOf(1))
    /\ Accepted # <<>>
    /\ Accepted[1].startIndex
           \in FollowedByBreak(result.content, Breakless(SearchOf(1)))
    /\ TrimmedMatch(result.content, SearchOf(1)) # Accepted[1].startIndex

----------------------------------------------------------------------------
(* Properties of the edit applier: line breaks after the matched region    *)

\* the number of line breaks a text ends with
RECURSIVE TrailingBreaks(_)
TrailingBreaks(text) ==
    IF EndsWith(text, "\n")
    THEN 1 + TrailingBreaks(Substring(text, 0, Len(text) - 1))
    ELSE 0

\* a text is another one with line breaks, and nothing else, appended
OnlyBreaksAppended(adjusted, replace) ==
    /\ Len(adjusted) > Len(replace)
    /\ Substring(adjusted, 0, Len(replace)) = replace
    /\ TrailingBreaks(adjusted) >= Len(adjusted) - Len(replace)

\* the replace text of an accepted match is adjusted as C26 says, k line
\* breaks following its range in the document
PreservesBreaks(content, accepted, replace) ==
    LET k == Len(ExtraNewlines(content, accepted.endIndex))
    IN  IF EndsWith(accepted.searchContent, "\n") /\ k >= 1
        THEN IF TrailingBreaks(replace) >= k
             THEN accepted.replaceContent = replace
             ELSE OnlyBreaksAppended(accepted.replaceContent, replace)
        ELSE accepted.replaceContent = replace

\* C26: the replace text spliced for the first change of a pass, when it is
\* accepted: unchanged if the search text does not end with a line break or
\* no line break follows the matched range; else, k line breaks following,
\* unchanged if the replace text ends with at least k line breaks and
\* otherwise the replace text with only line breaks appended
C26_TrailingBreaksPreserved ==
    (PassDone /\ Len(completedChanges) > 0
        /\ RangeOf(result.content, completedChanges[1]).found) =>
        PreservesBreaks(result.content, Accepted[1],
                        FilterChange(completedChanges[1]).replace)

\* the first change was accepted, its search text ends with a line break and
\* a blank line follows its range
C26_Witness ==
    /\ PassDone /\ Len(completedChanges) > 0
    /\ Accepted # <<>>
    /\ EndsWith(Accepted[1].searchContent, "\n")
    /\ Accepted[1].startIndex = IndexOf(result.content, Accepted[1].searchContent)
    /\ Len(ExtraNewlines(result.content, Accepted[1].endIndex)) = 1

----------------------------------------------------------------------------
(* Properties of the edit applier: the splices                             *)

\* the accepted matches whose range starts at offset from or after it
StartingFrom(applied, from) ==
    {i \in 1..Len(applied) : applied[i].startIndex >= from}

\* the text from offset from on, with every accepted range replaced at once:
\* the characters up to the next range, its replace text, and so on
RECURSIVE Simultaneous(_, _, _)
Simultaneous(content, applied, from) ==
    IF StartingFrom(applied, from) = {} THEN SubstringFrom(content, from)
    ELSE LET next == CHOOSE i \in StartingFrom(applied, from) :
                         \A j \in StartingFrom(applied, from) :
                             applied[i].startIndex <= applied[j].startIndex
         IN  Substring(content, from, applied[next].startIndex)
                 \o applied[next].replaceContent
                 \o Simultaneous(content, applied, applied[next].endIndex)

\* C27: the hypothetical text a pass makes by splicing the accepted matches
\* in descending order of their start is the document with every accepted
\* range replaced at once by its adjusted replace text, the characters
\* outside the ranges kept in their order; the operations returned lead from
\* the document to that text
C27_SpliceIsSimultaneous ==
    PassDone /\ Len(completedChanges) > 0 =>
        /\ ModifiedContent(result.content, completedChanges)
               = Simultaneous(result.content, Accepted, 0)
        /\ result.suggestions.files[1].operations
               = OperationsTo(result.content,
                              Simultaneous(result.content, Accepted, 0))

\* two matches were accepted, the one that starts first in the document
\* first, and its replace text is shorter than its range
C27_Witness ==
    /\ PassDone /\ Len(Accepted) = 2
    /\ Accepted[1].startIndex < Accepted[2].startIndex
    /\ Len(Accepted[1].replaceContent)
           < Accepted[1].endIndex - Accepted[1].startIndex
    /\ Accepted[2].replaceContent # ""

----------------------------------------------------------------------------
(* Properties of the hunk translation                                      *)

\* the hunks of the diff a pass translates
HunksOfPass ==
    StructuredPatch(result.content,
                    ModifiedContent(result.content, completedChanges))

\* the operations a pass returned
OperationsOfPass == result.suggestions.files[1].operations

\* the counters an operation carries
CountersOf(operations) ==
    [i \in 1..Len(operations) |->
        [type |-> operations[i].type, oldLine |-> operations[i].oldLine,
         newLine |-> operations[i].newLine]]

\* the counters the add and remove lines of a hunk carry when the running
\* counters advance with the kind of each line: both on a context line, the
\* new one on an add line, the old one on a remove line
RECURSIVE KindCounters(_, _, _, _)
KindCounters(lines, k, oldLine, newLine) ==
    IF k > Len(lines) THEN <<>>
    ELSE IF CharAt(lines[k], 0) = "+"
    THEN <<[type |-> "+", oldLine |-> oldLine - 1, newLine |-> newLine - 1]>>
             \o KindCounters(lines, k + 1, oldLine, newLine + 1)
    ELSE IF CharAt(lines[k], 0) = "-"
    THEN <<[type |-> "-", oldLine |-> oldLine - 1, newLine |-> newLine - 1]>>
             \o KindCounters(lines, k + 1, oldLine + 1, newLine)
    ELSE IF CharAt(lines[k], 0) = " "
    THEN KindCounters(lines, k + 1, oldLine + 1, newLine + 1)
    ELSE KindCounters(lines, k + 1, oldLine, newLine)

RECURSIVE PatchKindCounters(_, _)
PatchKindCounters(hunks, h) ==
    IF h > Len(hunks) THEN <<>>
    ELSE KindCounters(hunks[h].lines, 1, hunks[h].oldStart, hunks[h].newStart)
             \o PatchKindCounters(hunks, h + 1)

\* C28: the counters of the operations a pass returns are those of running
\* counters that start at each hunk's oldStart and newStart and advance with
\* the kind of each line: both on a context line, only newLine on an add
\* line, only oldLine on a remove line
C28_CountersFollowLineKind ==
    PassDone /\ Len(completedChanges) > 0 =>
        CountersOf(OperationsOfPass) = PatchKindCounters(HunksOfPass, 1)

\* a hunk with context, remove and add lines was translated
C28_Witness ==
    /\ PassDone /\ Len(completedChanges) > 0
    /\ Len(HunksOfPass) = 1
    /\ \E i, j, k \in 1..Len(HunksOfPass[1].lines) :
          /\ i < j /\ j < k
          /\ CharAt(HunksOfPass[1].lines[i], 0) = " "
          /\ CharAt(HunksOfPass[1].lines[j], 0) = "-"
          /\ CharAt(HunksOfPass[1].lines[k], 0) = "+"
    /\ Len(OperationsOfPass) >= 2

\* the lines of the hunks, from hunk h on, in order
RECURSIVE LinesOf(_, _)
LinesOf(hunks, h) ==
    IF h > Len(hunks) THEN <<>> ELSE hunks[h].lines \o LinesOf(hunks, h + 1)

\* the add and remove lines among lines k and after, as kind and content
RECURSIVE ChangedLines(_, _)
ChangedLines(lines, k) ==
    IF k > Len(lines) THEN <<>>
    ELSE (IF CharAt(lines[k], 0) \in {"+", "-"}
          THEN <<[type |-> CharAt(lines[k], 0),
                  content |-> SubstringFrom(lines[k], 1)]>>
          ELSE <<>>)
         \o ChangedLines(lines, k + 1)

\* the kind and content of each operation
KindsOf(operations) ==
    [i \in 1..Len(operations) |->
        [type |-> operations[i].type, content |-> operations[i].content]]

----------------------------------------------------------------------------
(* GeminiKeyManager: the pool of API keys of the Gemini provider           *)

\* the keys a user configures, and a blank entry
KeyNames == {"key1", "key2", "key3"}
BlankKey == " "

\* the pool holds at most MaxKeys keys
MaxKeys == 3

\* a value read past the end of an array
Undefined == "undefined"

\* the key manager's fields
KeyManager ==
    [keys |-> keys, currentIndex |-> currentIndex, failedKeys |-> failedKeys]

\* keysInput.filter((key) => key && key.trim().length > 0)
RECURSIVE NonBlankKeys(_, _)
NonBlankKeys(keysInput, k) ==
    IF k > Len(keysInput) THEN <<>>
    ELSE (IF Len(Trim(keysInput[k])) > 0 THEN <<keysInput[k]>> ELSE <<>>)
         \o NonBlankKeys(keysInput, k + 1)

\* new GeminiKeyManager(keysInput), keysInput an array
NewKeyManager(keysInput) ==
    [keys |-> NonBlankKeys(keysInput, 1), currentIndex |-> 0, failedKeys |-> {}]

\* this.keys.filter((key) => !this.failedKeys.has(key)), and its complement
RECURSIVE KeysWhere(_, _, _, _)
KeysWhere(pool, failed, wanted, k) ==
    IF k > Len(pool) THEN <<>>
    ELSE (IF (pool[k] \in failed) = wanted THEN <<pool[k]>> ELSE <<>>)
         \o KeysWhere(pool, failed, wanted, k + 1)

AvailableKeys(km) == KeysWhere(km.keys, km.failedKeys, FALSE, 1)

\* this.keys[this.currentIndex]
KeyAt(km) ==
    IF km.currentIndex < Len(km.keys) THEN km.keys[km.currentIndex + 1]
    ELSE Undefined

\* x || null
OrNull(seq) == IF seq = <<>> THEN Null ELSE seq[1]

\* all keys have failed: the failed set is cleared and the first key returned
StartOver(km) ==
    [km |-> [km EXCEPT !.failedKeys = {}, !.currentIndex = 0],
     value |-> OrNull(km.keys)]

\* getCurrentKey() returning the key at the current index, failed or not
CurrentKeyLoop_noSkip(km, attempts) == [km |-> km, value |-> KeyAt(km)]

\* the loop of getCurrentKey: from the current index, the first key that has
\* not failed; the index stays on it
RECURSIVE CurrentKeyLoop(_, _)
CurrentKeyLoop(km, attempts) ==
    IF attempts >= Len(km.keys)
    THEN [km |-> km, value |-> OrNull(AvailableKeys(km))]
    ELSE IF KeyAt(km) \notin km.failedKeys
         THEN [km |-> km, value |-> KeyAt(km)]
         ELSE CurrentKeyLoop(
                  [km EXCEPT !.currentIndex = (km.currentIndex + 1) % Len(km.keys)],
                  attempts + 1)

\* getCurrentKey() without the branch that starts over
GetCurrentKeyOn_noStartOver(km) ==
    IF Len(km.keys) = 0 THEN [km |-> km, value |-> Null]
    ELSE CurrentKeyLoop(km, 0)

\* getCurrentKey()
GetCurrentKeyOn(km) ==
    IF Len(km.keys) = 0 THEN [km |-> km, value |-> Null]
    ELSE IF AvailableKeys(km) = <<>> THEN StartOver(km)
    ELSE CurrentKeyLoop(km, 0)

\* getNextKey() stepping past the last key without wrapping to the first
GetNextKeyOn_noWrap(km) ==
    IF Len(km.keys) = 0 THEN [km |-> km, value |-> Null]
    ELSE GetCurrentKeyOn([km EXCEPT !.currentIndex = km.currentIndex + 1])

\* getNextKey()
GetNextKeyOn(km) ==
    IF Len(km.keys) = 0 THEN [km |-> km, value |-> Null]
    ELSE GetCurrentKeyOn(
             [km EXCEPT !.currentIndex = (km.currentIndex + 1) % Len(km.keys)])

\* the loop of moveToNextAvailableKey: the index advances before each test
RECURSIVE NextAvailableLoop(_, _)
NextAvailableLoop(km, attempts) ==
    IF attempts >= Len(km.keys)
    THEN [km |-> km, value |-> OrNull(AvailableKeys(km))]
    ELSE LET moved == [km EXCEPT
                          !.currentIndex = (km.currentIndex + 1) % Len(km.keys)]
         IN  IF KeyAt(moved) \notin km.failedKeys
             THEN [km |-> moved, value |-> KeyAt(moved)]
             ELSE NextAvailableLoop(moved, attempts + 1)

\* moveToNextAvailableKey() returning the first available key of the pool and
\* leaving the index where it is
MoveToNextAvailableKeyOn_first(km) ==
    [km |-> km, value |-> OrNull(AvailableKeys(km))]

\* moveToNextAvailableKey()
MoveToNextAvailableKeyOn(km) ==
    IF Len(km.keys) = 0 THEN [km |-> km, value |-> Null]
    ELSE IF AvailableKeys(km) = <<>> THEN StartOver(km)
    ELSE NextAvailableLoop(km, 0)

\* the keys of the pool, as a set
KeySet(pool) == {pool[i] : i \in 1..Len(pool)}

\* markKeyAsFailed(key)
MarkKeyAsFailedOn(km, key) ==
    IF key \in KeySet(km.keys)
    THEN [km EXCEPT !.failedKeys = km.failedKeys \cup {key}]
    ELSE km

\* resetFailedKeys()
ResetFailedKeysOn(km) == [km EXCEPT !.failedKeys = {}]

\* addKey(key)
AddKeyOn(km, key) ==
    IF Len(Trim(key)) > 0 /\ Trim(key) \notin KeySet(km.keys)
    THEN [km EXCEPT !.keys = Append(km.keys, Trim(key))]
    ELSE km

\* this.keys.indexOf(key), from 1; 0 when the key is not in the pool
FirstIndexOf(pool, key) ==
    IF key \in KeySet(pool)
    THEN MinOf({i \in 1..Len(pool) : pool[i] = key})
    ELSE 0

\* this.keys.splice(index, 1)
WithoutIndex(pool, index) ==
    SubSeq(pool, 1, index - 1) \o SubSeq(pool, index + 1, Len(pool))

\* removeKey(key)
RemoveKeyOn(km, key) ==
    IF FirstIndexOf(km.keys, key) = 0 THEN [km |-> km, value |-> "false"]
    ELSE LET rest == WithoutIndex(km.keys, FirstIndexOf(km.keys, key))
         IN  [km |-> [keys |-> rest,
                      currentIndex |-> IF km.currentIndex >= Len(rest) /\ Len(rest) > 0
                                       THEN 0 ELSE km.currentIndex,
                      failedKeys |-> km.failedKeys \ {key}],
              value |-> "true"]

\* updateKeys(keysInput), keysInput an array
UpdateKeysOn(km, keysInput) == NewKeyManager(keysInput)

\* shuffleArray(array): Math.random() decides; every order can come out
Shuffles(array) ==
    {[i \in 1..Len(array) |-> array[p[i]]] :
        p \in {q \in [1..Len(array) -> 1..Len(array)] :
                  \A i, j \in 1..Len(array) : q[i] = q[j] => i = j}}

\* shuffleKeys() shuffling the whole pool, failed keys among the others
ShuffleKeysOn_wholePool(km) ==
    {[keys |-> shuffled, currentIndex |-> 0, failedKeys |-> km.failedKeys] :
        shuffled \in Shuffles(km.keys)}

\* shuffleKeys(): the key managers it can leave
ShuffleKeysOn(km) ==
    IF Len(km.keys) <= 1 THEN {km}
    ELSE IF AvailableKeys(km) = <<>>
         THEN {[keys |-> shuffled, currentIndex |-> 0, failedKeys |-> {}] :
                  shuffled \in Shuffles(km.keys)}
         ELSE {[keys |-> shuffled \o KeysWhere(km.keys, km.failedKeys, TRUE, 1),
                currentIndex |-> 0, failedKeys |-> km.failedKeys] :
                  shuffled \in Shuffles(AvailableKeys(km))}

\* the calls whose starting point is kept with what they returned
ObservedCalls == {"getCurrentKey", "moveToNextAvailableKey", "shuffleKeys"}

\* a call on the key manager leaves it as km and returns value
KeyCall(km, call, value, run) ==
    /\ keys' = km.keys
    /\ currentIndex' = km.currentIndex
    /\ failedKeys' = km.failedKeys
    /\ returned' = [call |-> call, value |-> value,
                    before |-> IF call \in ObservedCalls THEN KeyManager
                               ELSE NoCall.before]
    /\ rotation' = run
    /\ UNCHANGED message
    /\ UNCHANGED parserVars

\* the run of getNextKey calls after one more call that made index current:
\* a run starts on a pool without failed keys and ends after a full turn
NextRotation(index) ==
    IF failedKeys # {} \/ keys = <<>> THEN NoRotation
    ELSE IF rotation.start = -1 \/ Len(rotation.visited) >= Len(keys)
         THEN [start |-> currentIndex, visited |-> <<index>>]
         ELSE [rotation EXCEPT !.visited = Append(rotation.visited, index)]

GetCurrentKey ==
    \E r \in {GetCurrentKeyOn(KeyManager)} :
        KeyCall(r.km, "getCurrentKey", r.value, rotation)

GetNextKey ==
    \E r \in {GetNextKeyOn(KeyManager)} :
        KeyCall(r.km, "getNextKey", r.value, NextRotation(r.km.currentIndex))

MoveToNextAvailableKey ==
    \E r \in {MoveToNextAvailableKeyOn(KeyManager)} :
        KeyCall(r.km, "moveToNextAvailableKey", r.value, NoRotation)

MarkKeyAsFailed(key) ==
    \E km \in {MarkKeyAsFailedOn(KeyManager, key)} :
        KeyCall(km, "markKeyAsFailed", Null, NoRotation)

ResetFailedKeys ==
    \E km \in {ResetFailedKeysOn(KeyManager)} :
        KeyCall(km, "resetFailedKeys", Null, NoRotation)

ShuffleKeys ==
    \E km \in ShuffleKeysOn(KeyManager) :
        KeyCall(km, "shuffleKeys", Null, NoRotation)

AddKey(key) ==
    /\ Len(keys) < MaxKeys
    /\ \E km \in {AddKeyOn(KeyManager, key)} :
          KeyCall(km, "addKey", Null, NoRotation)

RemoveKey(key) ==
    \E r \in {RemoveKeyOn(KeyManager, key)} :
        KeyCall(r.km, "removeKey", r.value, NoRotation)

UpdateKeys(keysInput) ==
    \E km \in {UpdateKeysOn(KeyManager, keysInput)} :
        KeyCall(km, "updateKeys", Null, NoRotation)

\* the arrays of keys a caller passes
KeyInputs == UNION {[1..n -> KeyNames \cup {BlankKey}] : n \in 0..MaxKeys}

\* a key manager constructed from an array of keys; the parser is not used
InitKeys ==
    /\ context = NoContext
    /\ buffer = NewParser.buffer
    /\ completedChanges = NewParser.completedChanges
    /\ lastProcessedIndex = NewParser.lastProcessedIndex
    /\ documentText = DocTabs
    /\ stream = OneBlock
    /\ delivered = 0
    /\ nonEmptyChunks = 0
    /\ abandoned = FALSE
    /\ result = NoResult
    /\ fresh = [engine |-> NewParser, out |-> NoResult]
    /\ \E keysInput \in KeyInputs :
          /\ keys = NewKeyManager(keysInput).keys
          /\ currentIndex = NewKeyManager(keysInput).currentIndex
          /\ failedKeys = NewKeyManager(keysInput).failedKeys
    /\ returned = NoCall
    /\ rotation = NoRotation
    /\ message = NoMessage

NextKeys ==
    \/ GetCurrentKey
    \/ GetNextKey
    \/ MoveToNextAvailableKey
    \/ \E key \in KeyNames : MarkKeyAsFailed(key)
    \/ ResetFailedKeys
    \/ ShuffleKeys
    \/ \E key \in KeyNames \cup {BlankKey, " key1"} : AddKey(key)
    \/ \E key \in KeyNames : RemoveKey(key)
    \/ \E keysInput \in KeyInputs : UpdateKeys(keysInput)

SpecKeys == InitKeys /\ [][NextKeys]_vars

----------------------------------------------------------------------------
(* GeminiHandler: executeWithRetry and the createMessage generator         *)

\* what executeWithRetry leaves and returns when it stops after the keys in
\* used were tried: the error it throws, if any
Retried(km, threw, used, error) ==
    [km |-> km, threw |-> threw, used |-> used, error |-> error]

\* the loop of executeWithRetry with a catch clause that does not mark the
\* key as failed
RECURSIVE RetryLoop_noMark(_, _, _, _, _)
RetryLoop_noMark(km, outcomes, attempt, maxAttempts, used) ==
    IF attempt >= maxAttempts THEN Retried(km, TRUE, used, "all_keys_failed")
    ELSE LET current == GetCurrentKeyOn(km)
         IN  IF current.value \in {Null, Undefined}
             THEN Retried(current.km, TRUE, used, "no_available_keys")
             ELSE IF outcomes[attempt + 1]
             THEN Retried(GetNextKeyOn(ResetFailedKeysOn(current.km)).km,
                          FALSE, Append(used, current.value), "")
             ELSE IF attempt = maxAttempts - 1 \/ AvailableKeys(current.km) = <<>>
             THEN Retried(current.km, TRUE, Append(used, current.value),
                          "all_keys_failed")
             ELSE RetryLoop_noMark(current.km, outcomes,
                                   attempt + 1, maxAttempts,
                                   Append(used, current.value))

\* the loop of executeWithRetry; outcomes[i] tells whether the operation
\* succeeds at the i-th attempt
RECURSIVE RetryLoop(_, _, _, _, _)
RetryLoop(km, outcomes, attempt, maxAttempts, used) ==
    IF attempt >= maxAttempts THEN Retried(km, TRUE, used, "all_keys_failed")
    ELSE LET current == GetCurrentKeyOn(km)
             marked == MarkKeyAsFailedOn(current.km, current.value)
         IN  IF current.value \in {Null, Undefined}
             THEN Retried(current.km, TRUE, used, "no_available_keys")
             ELSE IF outcomes[attempt + 1]
             THEN Retried(GetNextKeyOn(
                              IF KeysWhere(current.km.keys, current.km.failedKeys, TRUE, 1) # <<>>
                              THEN ResetFailedKeysOn(current.km)
                              ELSE current.km).km,
                          FALSE, Append(used, current.value), "")
             ELSE IF attempt = maxAttempts - 1 \/ AvailableKeys(marked) = <<>>
             THEN Retried(marked, TRUE, Append(used, current.value),
                          "all_keys_failed")
             ELSE RetryLoop(MoveToNextAvailableKeyOn(marked).km, outcomes,
                            attempt + 1, maxAttempts, Append(used, current.value))

\* executeWithRetry(operation)
ExecuteWithRetryOn(km, outcomes) ==
    IF Len(km.keys) = 0 THEN Retried(km, TRUE, <<>>, "no_api_key")
    ELSE RetryLoop(km, outcomes, 0, MinOf({Len(km.keys), 3}), <<>>)

\* the chunks createMessage yields
FallbackText == "I apologize, but I'm experiencing some technical difficulties"
CitationsText == "\n\nSources: [1](https://example.com)"
TextChunk(text) == [type |-> "text", text |-> text]
ReasoningChunk(text) == [type |-> "reasoning", text |-> text]
UsageChunk(inputTokens, outputTokens, totalCost) ==
    [type |-> "usage", inputTokens |-> inputTokens,
     outputTokens |-> outputTokens, totalCost |-> totalCost]

\* calculateCost, at a price of one per token
CalculateCost(inputTokens, outputTokens) == inputTokens + outputTokens

\* a chunk of the API stream: the parts of its first candidate (none without
\* candidates), its text property and whether it carries grounding and usage
\* metadata
ApiChunk(candidates, parts, text, grounding, usage) ==
    [candidates |-> candidates, parts |-> parts, text |-> text,
     groundingMetadata |-> grounding, usageMetadata |-> usage]

Part(thought, text) == [thought |-> thought, text |-> text]

UsageMetadata == <<[promptTokenCount |-> 5, candidatesTokenCount |-> 7]>>

ApiChunks ==
    {ApiChunk(TRUE, <<Part(FALSE, "ok")>>, "ok", FALSE, <<>>),
     ApiChunk(TRUE, <<Part(FALSE, " \n"), Part(TRUE, "")>>, " \n", FALSE, <<>>),
     ApiChunk(TRUE, <<Part(TRUE, "hm")>>, "", FALSE, UsageMetadata),
     ApiChunk(TRUE, <<>>, "", TRUE, <<>>),
     ApiChunk(FALSE, <<>>, "ok", FALSE, <<>>),
     ApiChunk(FALSE, <<>>, " ", FALSE, UsageMetadata)}

\* x && x.trim()
NonBlank(text) == Len(Trim(text)) > 0

\* the chunks yielded for the parts of a candidate, from the k-th on
RECURSIVE PartChunks(_, _)
PartChunks(parts, k) ==
    IF k > Len(parts) THEN <<>>
    ELSE (IF ~NonBlank(parts[k].text) THEN <<>>
          ELSE IF parts[k].thought THEN <<ReasoningChunk(parts[k].text)>>
          ELSE <<TextChunk(parts[k].text)>>)
         \o PartChunks(parts, k + 1)

\* the chunks yielded for one chunk of the API stream
ChunkYields(chunk) ==
    IF chunk.candidates THEN PartChunks(chunk.parts, 1)
    ELSE IF NonBlank(chunk.text) THEN <<TextChunk(chunk.text)>>
    ELSE <<>>

\* one turn of the for await loop
Received(m, chunk) ==
    [m EXCEPT !.received = Append(@, chunk),
              !.yielded = @ \o ChunkYields(chunk),
              !.hasContent = @ \/ ChunkYields(chunk) # <<>>,
              !.pendingGroundingMetadata =
                  IF chunk.candidates /\ chunk.groundingMetadata THEN TRUE ELSE @,
              !.lastUsageMetadata =
                  IF chunk.usageMetadata # <<>> THEN chunk.usageMetadata ELSE @]

\* the stream ended: the code after the loop
Finished(m) ==
    [m EXCEPT !.pc = "done",
              !.yielded = @
                  \o (IF m.hasContent THEN <<>> ELSE <<TextChunk(FallbackText)>>)
                  \o (IF m.pendingGroundingMetadata
                      THEN <<TextChunk(CitationsText)>> ELSE <<>>)
                  \o (IF m.lastUsageMetadata = <<>> THEN <<>>
                      ELSE <<UsageChunk(m.lastUsageMetadata[1].promptTokenCount,
                                        m.lastUsageMetadata[1].candidatesTokenCount,
                                        CalculateCost(
                                            m.lastUsageMetadata[1].promptTokenCount,
                                            m.lastUsageMetadata[1].candidatesTokenCount))>>)]

\* the catch clause left out: the error reaches the consumer
Caught_rethrow(m) == [m EXCEPT !.pc = "done", !.failure = TRUE, !.threw = TRUE]

\* the catch clause of createMessage
Caught(m) ==
    [m EXCEPT !.pc = "done",
              !.failure = TRUE,
              !.yielded = @ \o <<TextChunk(FallbackText), UsageChunk(0, 0, 0)>>]

\* the generator entered its try block
Started == [NoMessage EXCEPT !.pc = "streaming"]

\* the chunks a stream holds at most
MaxStream == 2

\* createMessage(...) is called and its generator run up to the stream:
\* the keys are shuffled and the API called through executeWithRetry
CreateMessage(outcomes) ==
    /\ message.pc \in {"idle", "done"}
    /\ \E shuffled \in ShuffleKeysOn(KeyManager) :
          \E r \in {ExecuteWithRetryOn(shuffled, outcomes)} :
              /\ keys' = r.km.keys
              /\ currentIndex' = r.km.currentIndex
              /\ failedKeys' = r.km.failedKeys
              /\ message' = IF r.threw THEN Caught(Started) ELSE Started
    /\ returned' = NoCall
    /\ rotation' = NoRotation
    /\ UNCHANGED parserVars

\* the API stream produces a chunk
StreamChunk(chunk) ==
    /\ message.pc = "streaming"
    /\ Len(message.received) < MaxStream
    /\ message' = Received(message, chunk)
    /\ UNCHANGED <<keys, currentIndex, failedKeys, returned, rotation>>
    /\ UNCHANGED parserVars

\* iterating the API stream throws
StreamThrows ==
    /\ message.pc = "streaming"
    /\ message' = Caught(message)
    /\ UNCHANGED <<keys, currentIndex, failedKeys, returned, rotation>>
    /\ UNCHANGED parserVars

\* the API stream ends
StreamEnds ==
    /\ message.pc = "streaming"
    /\ message' = Finished(message)
    /\ UNCHANGED <<keys, currentIndex, failedKeys, returned, rotation>>
    /\ UNCHANGED parserVars

\* the pools of keys a handler is configured with
HandlerKeys ==
    {<<>>, <<"key1">>, <<"key1", "key2">>, <<"key1", "key2", "key3">>}

\* a handler constructed with its keys; the parser is not used
InitMessage ==
    /\ context = NoContext
    /\ buffer = NewParser.buffer
    /\ completedChanges = NewParser.completedChanges
    /\ lastProcessedIndex = NewParser.lastProcessedIndex
    /\ documentText = DocTabs
    /\ stream = OneBlock
    /\ delivered = 0
    /\ nonEmptyChunks = 0
    /\ abandoned = FALSE
    /\ result = NoResult
    /\ fresh = [engine |-> NewParser, out |-> NoResult]
    /\ \E keysInput \in HandlerKeys :
          /\ keys = NewKeyManager(keysInput).keys
          /\ currentIndex = NewKeyManager(keysInput).currentIndex
          /\ failedKeys = NewKeyManager(keysInput).failedKeys
    /\ returned = NoCall
    /\ rotation = NoRotation
    /\ message = NoMessage

NextMessage ==
    \/ \E outcomes \in [1..3 -> BOOLEAN] : CreateMessage(outcomes)
    \/ \E chunk \in ApiChunks : StreamChunk(chunk)
    \/ StreamThrows
    \/ StreamEnds

SpecMessage == InitMessage /\ [][NextMessage]_vars

----------------------------------------------------------------------------
(* executeWithRetry on a key manager in any state its calls can leave      *)

\* executeWithRetry(operation): the key manager as the call found it, the
\* outcomes of the attempts, the keys the operation was invoked with and the
\* error thrown are kept with the call
ExecuteWithRetry(outcomes) ==
    /\ \E r \in {ExecuteWithRetryOn(KeyManager, outcomes)} :
          /\ keys' = r.km.keys
          /\ currentIndex' = r.km.currentIndex
          /\ failedKeys' = r.km.failedKeys
          /\ returned' = [call |-> "executeWithRetry",
                          value |-> IF r.threw THEN "threw" ELSE "returned",
                          before |-> KeyManager, outcomes |-> outcomes,
                          used |-> r.used, error |-> r.error]
    /\ rotation' = NoRotation
    /\ UNCHANGED message
    /\ UNCHANGED parserVars

NextRetry ==
    \/ NextKeys
    \/ \E outcomes \in [1..3 -> BOOLEAN] : ExecuteWithRetry(outcomes)

SpecRetry == InitKeys /\ [][NextRetry]_vars

----------------------------------------------------------------------------
(* Properties of the key manager                                           *)

\* C21: whatever calls came before, the key getCurrentKey returns is a key
\* of the pool that is not in the failed set as the call leaves it, so never
\* a failed key while some key of the pool has not failed; it returns null
\* exactly when the pool is empty
C21_CurrentKeyNeverFailed ==
    returned.call = "getCurrentKey" =>
        IF keys = <<>> THEN returned.value = Null
        ELSE /\ returned.value \in KeySet(keys)
             /\ returned.value \notin failedKeys
             /\ returned.value # Null

\* getCurrentKey returned a key after it passed over a failed one
C21_Witness ==
    /\ returned.call = "getCurrentKey"
    /\ Len(keys) = 3
    /\ keys[1] \in failedKeys
    /\ currentIndex > 0
    /\ returned.value = keys[currentIndex + 1]
    /\ returned.value \notin failedKeys

\* the indices a run of getNextKey calls made current, as a set
Visited == {rotation.visited[i] : i \in 1..Len(rotation.visited)}

\* C22: on a pool of n >= 1 keys none of which has failed, the i-th
\* getNextKey call of a run makes current the entry i places after the one
\* the run started from, wrapping from the last to the first, and returns
\* it; a getCurrentKey that follows returns the same key; after n calls
\* every entry of the pool was visited once and the starting one is current
C22_RoundRobin ==
    rotation.start # -1 =>
        /\ returned.call \in {"getNextKey", "getCurrentKey"}
        /\ failedKeys = {} /\ Len(keys) >= 1
        /\ Len(rotation.visited) \in 1..Len(keys)
        /\ \A i \in 1..Len(rotation.visited) :
              rotation.visited[i] = (rotation.start + i) % Len(keys)
        /\ currentIndex = rotation.visited[Len(rotation.visited)]
        /\ returned.value = keys[currentIndex + 1]
        /\ Len(rotation.visited) = Len(keys) =>
              /\ Visited = 0..(Len(keys) - 1)
              /\ currentIndex = rotation.start

\* three getNextKey calls went round a pool of three keys, starting from the
\* second one, and getCurrentKey was called after them
C22_Witness ==
    /\ Len(keys) = 3 /\ Cardinality(KeySet(keys)) = 3
    /\ rotation.start = 1
    /\ rotation.visited = <<2, 0, 1>>
    /\ returned.call = "getCurrentKey" /\ returned.value = keys[2]

----------------------------------------------------------------------------
(* Properties of the createMessage generator                               *)

\* the API stream produced a chunk with content that is not blank
ContentReceived ==
    \E i \in 1..Len(message.received) :
        LET chunk == message.received[i]
        IN  IF chunk.candidates
            THEN \E k \in 1..Len(chunk.parts) : NonBlank(chunk.parts[k].text)
            ELSE NonBlank(chunk.text)

\* the generator's last two chunks are the fallback text and a usage chunk
\* of zeros
EndsWithFallback ==
    /\ Len(message.yielded) >= 2
    /\ SubSeq(message.yielded, Len(message.yielded) - 1, Len(message.yielded))
           = <<[type |-> "text", text |-> FallbackText],
               [type |-> "usage", inputTokens |-> 0, outputTokens |-> 0,
                totalCost |-> 0]>>

\* C23: the generator never throws to its consumer; once the API call was
\* rejected or the stream threw, the generator is done and its last two
\* chunks are the fallback text and the usage chunk of zeros; when the
\* stream ended without content that is not blank, the fallback text is
\* among the chunks yielded
C23_FallbackOnFailure ==
    /\ ~message.threw
    /\ message.failure => message.pc = "done" /\ EndsWithFallback
    /\ (message.pc = "done" /\ ~message.failure /\ ~ContentReceived) =>
           \E i \in 1..Len(message.yielded) :
               message.yielded[i] = [type |-> "text", text |-> FallbackText]

\* the stream threw after the generator had yielded content
C23_Witness ==
    /\ message.failure
    /\ message.hasContent
    /\ Len(message.received) = 2
    /\ Len(message.yielded) >= 3
    /\ message.pc = "done"

----------------------------------------------------------------------------
(* Properties of the conservative finalizer                                *)

\* the blocks a text opens and does not close
Unclosed(rest) == CountOf(rest, "<change>", 0) - CountOf(rest, "</change>", 0)

\* the text lacks the end of a search element or of a replace element
PairIncomplete(rest) ==
    CountOf(rest, "</search>", 0) = 0 \/ CountOf(rest, "</replace>", 0) = 0

\* two or more blocks are open at once, or the one open block has an
\* incomplete pair
Unrepairable(rest) ==
    \/ Unclosed(rest) >= 2
    \/ Unclosed(rest) = 1 /\ PairIncomplete(rest)

\* finishStream() left the engine as it was and reported the changes
\* completed before it, without an error
NothingAppended ==
    /\ buffer' = buffer
    /\ completedChanges' = completedChanges
    /\ lastProcessedIndex' = lastProcessedIndex
    /\ ~result'.threw /\ ~result'.hasNewSuggestions
    /\ SuggestionsOn(documentText, completedChanges, result'.suggestions)

ConservativeStep ==
    /\ FinishStep /\ Unrepairable(Unprocessed) => NothingAppended
    /\ FinishStep /\ buffer' # buffer =>
          Unclosed(Unprocessed) = 1 /\ ~PairIncomplete(Unprocessed)

----------------------------------------------------------------------------
(* Properties of the key manager: failed keys and shuffling                *)

\* getFailedKeys()
GetFailedKeys == KeysWhere(keys, failedKeys, TRUE, 1)

\* the call found a pool all of whose keys had been marked failed
AllFailedBefore ==
    /\ returned.before.keys # <<>>
    /\ KeySet(returned.before.keys) \subseteq returned.before.failedKeys

\* C31: when every key of the pool has been marked failed, getCurrentKey does
\* not return null: it clears the failed set, sets the current index to 0 and
\* returns the first key of the pool, and getFailedKeys is empty afterwards
C31_AllFailedStartsOver ==
    returned.call = "getCurrentKey" /\ AllFailedBefore =>
        /\ returned.value # Null
        /\ returned.value = returned.before.keys[1]
        /\ keys = returned.before.keys
        /\ failedKeys = {}
        /\ currentIndex = 0
        /\ GetFailedKeys = <<>>

\* getCurrentKey on a pool of two failed keys, the second one current
C31_Witness ==
    /\ returned.call = "getCurrentKey"
    /\ Len(returned.before.keys) = 2
    /\ returned.before.failedKeys = KeySet(returned.before.keys)
    /\ Cardinality(returned.before.failedKeys) = 2
    /\ returned.before.currentIndex = 1
    /\ returned.value = keys[1]
    /\ failedKeys = {} /\ currentIndex = 0

\* the pool entry d places after the entry that was current before the call,
\* in cyclic order, as an index from 0
PlacesAfter(d) ==
    (returned.before.currentIndex + d) % Len(returned.before.keys)

\* the call found the current key failed and some other key not failed
CurrentFailedBefore ==
    /\ returned.before.keys # <<>>
    /\ returned.before.currentIndex < Len(returned.before.keys)
    /\ returned.before.keys[returned.before.currentIndex + 1]
          \in returned.before.failedKeys
    /\ \E i \in 1..Len(returned.before.keys) :
          returned.before.keys[i] \notin returned.before.failedKeys

\* C32: after the current key is marked failed while some other key is not,
\* moveToNextAvailableKey returns the first key that has not failed among
\* those that follow the current position in cyclic pool order and makes it
\* current; a getCurrentKey that follows returns that key and moves nothing
C32_MoveToNextAvailable ==
    returned.call = "moveToNextAvailableKey" /\ CurrentFailedBefore =>
        /\ keys = returned.before.keys
        /\ failedKeys = returned.before.failedKeys
        /\ \E d \in 1..(Len(keys) - 1) :
              /\ currentIndex = PlacesAfter(d)
              /\ keys[PlacesAfter(d) + 1] \notin failedKeys
              /\ \A e \in 1..(d - 1) : keys[PlacesAfter(e) + 1] \in failedKeys
        /\ returned.value = keys[currentIndex + 1]
        /\ GetCurrentKeyOn(KeyManager) = [km |-> KeyManager, value |-> returned.value]

\* the last key of three was current and failed, and so was the first one:
\* the call wrapped round to the second
C32_Witness ==
    /\ returned.call = "moveToNextAvailableKey"
    /\ Len(keys) = 3 /\ Cardinality(KeySet(keys)) = 3
    /\ returned.before.currentIndex = 2
    /\ returned.before.failedKeys = {keys[3], keys[1]}
    /\ currentIndex = 1
    /\ returned.value = keys[2]

\* how many entries of a pool hold a key
Multiplicity(pool, key) == Cardinality({i \in 1..Len(pool) : pool[i] = key})

\* two pools hold the same keys, each as many times
SameKeys(pool, other) ==
    /\ Len(pool) = Len(other)
    /\ \A key \in KeySet(pool) \cup KeySet(other) :
          Multiplicity(pool, key) = Multiplicity(other, key)

\* no failed key stands before a key that has not failed
FailedLast ==
    \A i, j \in 1..Len(keys) :
        keys[i] \in failedKeys /\ keys[j] \notin failedKeys => j < i

\* C33: shuffleKeys only permutes the pool: the pool holds the same keys with
\* the same multiplicities as before, every key that has not failed precedes
\* every failed key and the current index is 0, so that the next
\* getCurrentKey returns a key of the original pool that has not failed;
\* with zero or one key the call changes nothing
C33_ShufflePermutes ==
    returned.call = "shuffleKeys" =>
        /\ SameKeys(keys, returned.before.keys)
        /\ FailedLast
        /\ currentIndex = 0
        /\ failedKeys \subseteq returned.before.failedKeys
        /\ Len(keys) >= 2 =>
              /\ GetCurrentKeyOn(KeyManager).value \in KeySet(returned.before.keys)
              /\ GetCurrentKeyOn(KeyManager).value \notin failedKeys
              /\ GetCurrentKeyOn(KeyManager).value = keys[1]
        /\ Len(keys) = 1 =>
              GetCurrentKeyOn(KeyManager).value = returned.before.keys[1]
        /\ Len(returned.before.keys) <= 1 => KeyManager = returned.before

\* a pool of three keys whose first had failed and whose second was current
\* was shuffled: the two other keys changed places before the failed one
C33_Witness ==
    /\ returned.call = "shuffleKeys"
    /\ Len(keys) = 3 /\ Cardinality(KeySet(keys)) = 3
    /\ returned.before.currentIndex = 1
    /\ failedKeys = {returned.before.keys[1]}
    /\ keys = <<returned.before.keys[3], returned.before.keys[2],
                returned.before.keys[1]>>

----------------------------------------------------------------------------
(* Properties of the accepted ranges                                       *)

\* a text of the document matches a search payload: verbatim, without the
\* payload's trailing line break, after whitespace normalization or trimmed
MatchesPayload(region, searchPattern) ==
    \/ region = searchPattern
    \/ region \o "\n" = searchPattern
    \/ NormalizeWhitespace(region) = NormalizeWhitespace(searchPattern)
    \/ region = Trim(searchPattern)

\* the range of an accepted match lies inside a text and covers a region of
\* it that matches the payload
CoversMatchedRegion(content, match) ==
    /\ 0 <= match.startIndex
    /\ match.startIndex < match.endIndex
    /\ match.endIndex <= Len(content)
    /\ MatchesPayload(Substring(content, match.startIndex, match.endIndex),
                      match.searchContent)

\* C34: for every accepted match, whichever strategy of the cascade produced
\* it, the range [startIndex, endIndex) lies inside the document and covers
\* exactly the region of the document that matched the search payload, so
\* the splice removes no character outside the matched region
C34_RangeCoversMatchedRegion ==
    PassDone =>
        \A i \in 1..Len(Accepted) : CoversMatchedRegion(result.content, Accepted[i])

\* a payload of four spaces and "r;" matched the region "\tr;" of a document
\* of 9 characters on the normalized forms and was accepted with the range
\* [4, 10); the closing brace is lost with the line break before it
C34_Witness ==
    /\ PassDone /\ result.content = DocTabs
    /\ completedChanges = <<[search |-> "    r;", replace |-> "  q;"]>>
    /\ Len(Accepted) = 1
    /\ Accepted[1].startIndex = 4 /\ Accepted[1].endIndex = 10
    /\ ModifiedContent(result.content, completedChanges) = "f {\n  q;"

\* the accepted matches of payloads that occur verbatim in the document
\* cover the occurrence
VerbatimRangesCover ==
    PassDone =>
        \A i \in 1..Len(Accepted) :
            IndexOf(result.content, Accepted[i].searchContent) # -1 =>
                /\ CoversMatchedRegion(result.content, Accepted[i])
                /\ Substring(result.content, Accepted[i].startIndex,
                             Accepted[i].endIndex) = Accepted[i].searchContent

----------------------------------------------------------------------------
(* Acceptance over a session                                               *)

\* a list starts with another
StartsWith(list, start) ==
    Len(start) <= Len(list) /\ SubSeq(list, 1, Len(start)) = start

\* a call of processChunk follows one of the same session that read the same
\* document text: the matches accepted then are accepted again, in their
\* order, with their ranges and their adjusted replace texts
MonotoneStep ==
    /\ PassDone
    /\ result'.call = "processChunk" /\ ~result'.threw
    /\ delivered' > delivered
    /\ result'.content = result.content
    => /\ StartsWith(completedChanges', completedChanges)
       /\ StartsWith(AppliedChanges(result'.content, completedChanges',
                                    Len(completedChanges')),
                     Accepted)

\* C35: acceptance is monotone over a session: while the document is
\* unchanged, a change applied in the suggestions of one processChunk result
\* is applied with the same range and the same adjusted replace text in
\* every later result of the session; the changes that complete later only
\* add matches and never displace an accepted one
C35_AcceptanceMonotone == [][MonotoneStep]_vars

\* the second block of the session resolved to a range that intersects the
\* range accepted for the first one: the first is still the one applied
C35_Witness ==
    /\ PassDone /\ delivered = Len(stream)
    /\ Len(completedChanges) = 2
    /\ RangeOf(result.content, completedChanges[2]).found
    /\ Len(Accepted) = 1
    /\ Accepted[1].searchContent = completedChanges[1].search
    /\ Accepted = AppliedChanges(result.content, completedChanges, 1)

----------------------------------------------------------------------------
(* The text a pass resolves against                                        *)

\* C36: every change of a pass is resolved against the original document
\* text, never against text that earlier changes of the pass modified: the
\* offsets of every accepted match are those of its search text in the
\* original document, and a change whose search text is found in the replace
\* text of an earlier change only is dropped as not found
C36_ResolvedAgainstOriginal ==
    PassDone =>
        /\ \A i \in 1..Len(Accepted) :
              /\ Accepted[i].startIndex
                    = FindBestMatch(result.content, Accepted[i].searchContent)
              /\ Accepted[i].endIndex
                    = Accepted[i].startIndex + Len(Accepted[i].searchContent)
        /\ \A k \in 1..Len(completedChanges) :
              FindBestMatch(result.content, SearchOf(k)) = -1 =>
                  \A i \in 1..Len(Accepted) :
                      Accepted[i].searchContent # SearchOf(k)

\* the second change searches for the text the first one puts in and is
\* dropped: the hypothetical text holds the first edit only
C36_Witness ==
    /\ PassDone /\ result.content = DocTabs
    /\ completedChanges = <<[search |-> "f {", replace |-> "g {"],
                            [search |-> "g {", replace |-> "h {"]>>
    /\ Len(Accepted) = 1
    /\ ModifiedContent(result.content, completedChanges) = "g {\n\tr;\n}"

----------------------------------------------------------------------------
(* Empty search texts and empty documents                                  *)

\* C37: a change whose search text is empty, or is empty once the cursor
\* marker is taken out, is never applied, and no change is applied to an
\* empty document: findBestMatch returns -1 whenever the document text or
\* the search text is empty, and a pass with such changes only, or on an
\* empty document, leaves the hypothetical text equal to the original
C37_EmptyNeverApplied ==
    PassDone =>
        /\ \A i \in 1..Len(Accepted) : Accepted[i].searchContent # ""
        /\ result.content = "" => Accepted = <<>>
        /\ \A k \in 1..Len(completedChanges) :
              result.content = "" \/ SearchOf(k) = "" =>
                  FindBestMatch(result.content, SearchOf(k)) = -1
        /\ (result.content = "" \/ \A k \in 1..Len(completedChanges) : SearchOf(k) = "")
              => ModifiedContent(result.content, completedChanges) = result.content

\* a pass over a change with an empty search text and a change whose search
\* text is the cursor marker alone, on a document that is not empty
C37_Witness ==
    /\ PassDone /\ result.content = DocTabs
    /\ completedChanges = <<[search |-> "", replace |-> "n"],
                            [search |-> "", replace |-> "q"]>>
    /\ stream = Block("", "n") \o Block(CURSOR_MARKER, "q")
    /\ Accepted = <<>>
    /\ ModifiedContent(result.content, completedChanges) = DocTabs

\* a pass over a line break and a blank on an empty document
C37_WitnessEmptyDocument ==
    /\ PassDone /\ result.content = ""
    /\ completedChanges = <<[search |-> "\n", replace |-> "n\n"],
                            [search |-> " ", replace |-> "s"]>>
    /\ Accepted = <<>>

----------------------------------------------------------------------------
(* The order of the changes                                                *)

\* the changes of a list that resolve in a text resolve to ranges no two of
\* which intersect
DisjointRanges(content, changes) ==
    \A i, j \in 1..Len(changes) :
        i # j /\ RangeOf(content, changes[i]).found
              /\ RangeOf(content, changes[j]).found
        => ~(/\ RangeOf(content, changes[i]).startIndex
                  < RangeOf(content, changes[j]).endIndex
             /\ RangeOf(content, changes[j]).startIndex
                  < RangeOf(content, changes[i]).endIndex)

\* how many changes of a list resolve in a text
Resolved(content, changes) ==
    Cardinality({k \in 1..Len(changes) : RangeOf(content, changes[k]).found})

\* C38: when the ranges the changes of a pass resolve to are pairwise
\* disjoint, all of them are applied and every order of the changes in the
\* response gives the same hypothetical text; the text depends on the order
\* only when ranges intersect
C38_OrderIndependent ==
    PassDone /\ DisjointRanges(result.content, completedChanges) =>
        /\ Len(Accepted) = Resolved(result.content, completedChanges)
        /\ \A other \in Shuffles(completedChanges) :
              ModifiedContent(result.content, other)
                  = ModifiedContent(result.content, completedChanges)

\* two changes with disjoint ranges, the one that comes first in the
\* response lying after the other in the document: both are applied, and the
\* other order gives the same text
C38_Witness ==
    /\ PassDone /\ result.content = DocTabs
    /\ completedChanges = <<[search |-> "\tr;\n", replace |-> ""],
                            [search |-> "f {", replace |-> "g {"]>>
    /\ DisjointRanges(result.content, completedChanges)
    /\ Len(Accepted) = 2
    /\ ModifiedContent(result.content, completedChanges) = "g {\n}"
    /\ ModifiedContent(result.content,
                       <<completedChanges[2], completedChanges[1]>>) = "g {\n}"

----------------------------------------------------------------------------
(* The line indices of the operations                                      *)

\* the line of a text at an index from 0, without its line break; Undefined
\* when the text has no such line
LineAt(text, index) ==
    IF index >= 0 /\ index < Len(Tokenize(text))
    THEN Chomp(Tokenize(text)[index + 1])
    ELSE Undefined

\* an operation names the line it adds in the edited text, or the line it
\* removes in the original text
Faithful(operation, original, edited) ==
    /\ operation.type = "+" => LineAt(edited, operation.newLine) = operation.content
    /\ operation.type = "-" => LineAt(original, operation.oldLine) = operation.content

\* C39: the line indices of the operations are faithful for every hunk the
\* diff produces, hunks with the no-newline-at-end-of-file marker included:
\* the line of the hypothetical text at index newLine has the content of
\* every add operation, and the line of the original text at index oldLine
\* has the content of every remove operation
C39_LineIndicesFaithful ==
    PassDone /\ Len(completedChanges) > 0 =>
        \A i \in 1..Len(OperationsOfPass) :
            Faithful(OperationsOfPass[i], result.content,
                     ModifiedContent(result.content, completedChanges))

\* the last two lines of a document without a final line break were replaced
\* by one: the marker stands between the remove lines and the add line of the
\* hunk, and the add operation names line 2 of an edited text of two lines
C39_Witness ==
    /\ PassDone /\ result.content = DocTabs
    /\ completedChanges = <<[search |-> "r;\n}", replace |-> "R"]>>
    /\ ModifiedContent(result.content, completedChanges) = "f {\n\tR"
    /\ HunksOfPass[1].lines
          = <<" f {", "-\tr;", "-}", NoNewlineMarker, "+\tR", NoNewlineMarker>>
    /\ \E i \in 1..Len(OperationsOfPass) :
          /\ OperationsOfPass[i].type = "+"
          /\ OperationsOfPass[i].content = "\tR"
          /\ OperationsOfPass[i].newLine = 2

\* in a pass whose hunks hold no marker before an add or a remove line, the
\* line indices of the operations are faithful
MarkerBeforeChange(lines) ==
    \E i, j \in 1..Len(lines) :
        i < j /\ lines[i] = NoNewlineMarker /\ CharAt(lines[j], 0) \in {"+", "-"}

FaithfulWithoutMarker ==
    PassDone /\ Len(completedChanges) > 0
      /\ (\A h \in 1..Len(HunksOfPass) : ~MarkerBeforeChange(HunksOfPass[h].lines))
    => \A i \in 1..Len(OperationsOfPass) :
           Faithful(OperationsOfPass[i], result.content,
                    ModifiedContent(result.content, completedChanges))

----------------------------------------------------------------------------
(* Properties of executeWithRetry                                          *)

\* the smaller of two numbers
Smaller(a, b) == IF a <= b THEN a ELSE b

\* the entries of a list are pairwise different
Distinct(list) == \A i, j \in 1..Len(list) : list[i] = list[j] => i = j

\* C40: executeWithRetry terminates: on k distinct keys it invokes the
\* operation at most min(k, 3) times and never twice with the same key,
\* marks each key whose attempt failed as failed, returns at the first
\* attempt that succeeds and throws the all-keys-failed error when every
\* attempt failed; without keys it throws and does not invoke the operation
C40_RetryBounded ==
    returned.call = "executeWithRetry" /\ Distinct(returned.before.keys) =>
        /\ Len(returned.used) <= Smaller(Len(returned.before.keys), 3)
        /\ Distinct(returned.used)
        /\ \A i \in 1..Len(returned.used) :
              returned.used[i] \in KeySet(returned.before.keys)
        /\ keys = returned.before.keys
        /\ returned.before.keys = <<>> =>
              /\ returned.value = "threw" /\ returned.error = "no_api_key"
              /\ returned.used = <<>>
        /\ returned.before.keys # <<>> =>
              /\ Len(returned.used) >= 1
              /\ \A i \in 1..(Len(returned.used) - 1) : ~returned.outcomes[i]
              /\ returned.value = "returned" <=> returned.outcomes[Len(returned.used)]
              /\ returned.value = "threw" =>
                    /\ returned.error = "all_keys_failed"
                    /\ \A i \in 1..Len(returned.used) :
                          returned.used[i] \in failedKeys
                    /\ \/ Len(returned.used) = Smaller(Len(returned.before.keys), 3)
                       \/ KeySet(keys) \subseteq failedKeys
              /\ returned.value = "returned" => failedKeys = {}

\* three attempts on three keys, the second of which was current, all
\* failed: each key was tried once and all are marked failed
C40_Witness ==
    /\ returned.call = "executeWithRetry" /\ returned.value = "threw"
    /\ Len(keys) = 3 /\ Distinct(keys)
    /\ returned.before.currentIndex = 1
    /\ returned.before.failedKeys = {}
    /\ returned.used = <<keys[2], keys[3], keys[1]>>
    /\ failedKeys = KeySet(keys)

====
